---------------------------- MODULE Spec2Model ----------------------------
(***************************************************************************)
(* Vibemap (src/src/ninetiesCounter.js): the Draw-Select tool, the         *)
(* Measure tool, the Toolbar that drives both, and the bounding-box query  *)
(* orchestrator (queryFeaturesInBounds / fetchQueryEnhanced) with its      *)
(* geometry predicates.                                                    *)
(*                                                                         *)
(* A React state update is taken together with the effect re-run it        *)
(* causes: useDrawTool's effect depends on [map, isDrawing], so every      *)
(* change of isDrawing runs the effect cleanup and installs fresh handlers *)
(* with a fresh closure (isCurrentlyDrawing = false,                       *)
(* wasDraggingEnabled = true).                                             *)
(*                                                                         *)
(* Several state machines share the module.  SpecDraw runs the tool        *)
(* buttons and the draw tool's pointer events, SpecMeasure the toolbar and *)
(* the measure tool's click events (the two sets of handlers touch         *)
(* disjoint state, the toolbar touches both), SpecPanels the whole toolbar *)
(* with the popup of a clicked feature, SpecQuery one bounding-box query,  *)
(* SpecRepeat bounding-box queries one after the other, SpecUnmount the    *)
(* measure tool together with App's unmount cleanup and the steps of its   *)
(* visitor counter effect,                                                 *)
(* SpecHelpers one application of a measuring, geometry or filter function *)
(* to an argument of a bounded grid, SpecOverlap Draw-Select queries       *)
(* issued while earlier ones are in flight, SpecCounter the visitor        *)
(* counter (class NinetiesCounter as App's effect updateVisitorCounter and *)
(* other importers of the module call it, with storage calls that throw),  *)
(* SpecZoom the zoom control with the                                      *)
(* layers' where clauses and the fetch requests, SpecDrawLayers the draw   *)
(* tool together with the layer checkboxes, and SpecFilter the filter tool *)
(* with the feature popup, the message center, a layer checkbox and        *)
(* the zoom.  FairSpecQuery adds the fairness of the request callbacks.    *)
(*                                                                         *)
(* Every action ends with what React renders after it (Render): App hands  *)
(* MapInitializer handleFeatureClick in filter mode and null out of it,    *)
(* which creates the layers again, and Toolbar reads the two tool refs     *)
(* while it renders, before the effects that refresh them.                 *)
(***************************************************************************)
EXTENDS Integers, Sequences, FiniteSets, TLC

VARIABLES
    \* ---- Toolbar (function Toolbar)
    activeTab,            \* useState('layers')
    activeTool,           \* useState(null): "none" stands for null
    message,              \* App's message, written through setMessage
    isExpanded,           \* useState(true)
    \* ---- useDrawTool
    isDrawing,            \* useState(false)
    isCurrentlyDrawing,   \* effect closure variable
    wasDraggingEnabled,   \* effect closure variable
    startPoint,           \* startPointRef.current (NoPoint stands for null)
    rect,                 \* rectangleRef.current: "null", "on" (on the map), "off"
    rectCorner,           \* the corner the rectangle was last stretched to
    orphanRects,          \* a rectangle on the map that rectangleRef no longer names
    removeTimers,         \* pending setTimeout(..., 5000) of onMouseUp
    mapDragging,          \* map.dragging.enabled()
    queryCalls,           \* the queryFeaturesInBounds calls of the last handler run
    lastUp,               \* the last mouseup handled: its drag span, or NoUp
    closureLayers,        \* layerStates as the closure of the draw effect holds it
    \* ---- useMeasureTool
    isMeasuring,          \* useState(false)
    measureMode,          \* useState('line')
    isMeasuringRef,       \* isMeasuringRef.current
    isDoubleClickingRef,  \* isDoubleClickingRef.current
    measurePoints,        \* measurePointsRef.current
    sessionMarkers,       \* vertex markers on the measure layer added since startMeasuring
    oldMarkers,           \* vertex markers of earlier sessions are on the measure layer
    lineOn,               \* measureLineRef.current is set (and on the measure layer)
    polyOn,               \* measurePolygonRef.current is set (and on the measure layer)
    dblTimers,            \* pending setTimeout(..., 100) of handleMapDoubleClick
    gesture,              \* the browser's position in a double-click gesture
    gestureAppends,       \* vertices appended by the clicks of the last gesture
    clearedSinceStart,    \* clearMeasurements ran and startMeasuring has not run since
    reportedTotals,       \* the totals in the last message the measure tool wrote
    \* ---- queryFeaturesInBounds
    layerStates,          \* App's layerStates
    qStatus,              \* "idle", "running", "delivered"
    qBounds,              \* the bounds of the running query
    attempt,              \* per layer: the network attempt that is pending
    results,              \* per layer: what its promise resolved to
    allFailed,            \* per layer: every attempt made so far has failed
    selectedFeatures,     \* App's selectedFeatures
    showFeaturePopup,     \* App's showFeaturePopup
    qRejected,            \* the .catch branch of Promise.all ran
    \* ---- App: cached and paged loading (loadFeaturesWithProgress and its callers)
    queryCache,           \* useState(new Map()): the entries of the Map
    isLoadingFeatures,    \* useState(false)
    loadingProgress,      \* useState(0)
    featureCount,         \* useState(0)
    displayedFeatures,    \* useState([])
    hasMoreFeatures,      \* useState(false)
    currentPage,          \* useState(1)
    isLoadingMore,        \* useState(false)
    \* ---- App as a whole, and the helper functions called on their own
    mounted,              \* App is mounted (its unmount cleanup has not run)
    applied,              \* the last helper function applied: its name, argument, result
    \* ---- Draw-Select queries that overlap in time
    overlap,              \* the calls of queryFeaturesInBounds so far, oldest first
    \* ---- NinetiesCounter
    counterStore,         \* localStorage[COUNTER_KEY]: a decimal string, <<>> for null
    sessionStore,         \* sessionStorage[SESSION_KEY]: a session id or "null"
    visit,                \* the last call on the counter and what it returned
    visitStore,           \* localStorage['vibemapVisitCount'], like counterStore
    visitCount,           \* App: useState(0)
    counterModule,        \* App's effect updateVisitorCounter: "pending" while it awaits
                          \* its import, "imported" with the module evaluated,
                          \* "counted" with the count in hand, "loaded" when it is
                          \* over, "failed" after an import that failed
    effectCount,          \* updateVisitorCounter: const count, 0 while there is none
    \* ---- the map's zoom and what depends on it
    zoom,                 \* map.getZoom()
    layerWhere,           \* per layer of layersRef.current, the where clause it queries with
    fetchPlan,            \* the request fetchQueryEnhanced built last
    \* ---- App: the filter tool
    filterMode,           \* useState(false)
    showFilterPopup,      \* useState(false)
    selectedFilterLayer,  \* useState(''): "" or the name of a layer
    selectedFilterField,  \* useState(''): "" or the name of a field
    selectedFilterValue,  \* useState(''): "" or a value of that field
    filterValues,         \* useState([]): the values offered for the field
    isLoadingValues,      \* useState(false)
    fieldValueCache,      \* fieldValueCache.current: the layers whose values are cached
    filterRequests,       \* the layer.query() requests of the filter tool awaiting an answer
    \* ---- App: the basemap and the popup of one feature
    basemap,              \* useState('osm')
    selectedFeature,      \* useState(null): "" for null, else the layerName of the feature
    \* ---- the tool objects as Toolbar sees them
    drawToolRef,          \* drawToolRef.current.isDrawing
    measureToolRef,       \* measureToolRef.current.isMeasuring
    drawDisabled,         \* the disabled attribute of Draw Select that Toolbar rendered last
    measureDisabled,      \* that of the two Measure buttons
    \* ---- Leaflet
    zoomTarget            \* the zoom a running zoom animation ends at, or NoZoom

toolbarVars == <<activeTab, activeTool, message>>
drawVars == <<isDrawing, isCurrentlyDrawing, wasDraggingEnabled, startPoint, rect,
              rectCorner, orphanRects, removeTimers, mapDragging, queryCalls, lastUp,
              closureLayers>>
measureVars == <<isMeasuring, measureMode, isMeasuringRef, isDoubleClickingRef,
                 measurePoints, sessionMarkers, oldMarkers, lineOn, polyOn,
                 dblTimers, gesture, gestureAppends, clearedSinceStart, reportedTotals>>
counterVars == <<counterStore, sessionStore, visit, visitStore, visitCount, counterModule,
                 effectCount>>
mapZoom == <<zoom, zoomTarget>>
zoomVars == <<mapZoom, fetchPlan>>
filterForm == <<selectedFilterLayer, selectedFilterField, selectedFilterValue, filterValues>>
filterNet == <<isLoadingValues, fieldValueCache, filterRequests>>
filterVars == <<filterMode, showFilterPopup, filterForm, filterNet>>
panelVars == <<isExpanded, basemap, selectedFeature>>
sideVars == <<overlap, counterVars, zoomVars, filterVars, panelVars>>
appVars == <<mounted, applied, sideVars>>
loadVars == <<queryCache, isLoadingFeatures, loadingProgress, featureCount,
              displayedFeatures, hasMoreFeatures, currentPage, isLoadingMore>>
pageVars == <<loadVars, appVars>>
\* pageVars but for the filter tool
restVars == <<loadVars, mounted, applied, overlap, counterVars, zoomVars, panelVars>>
queryVars == <<layerStates, qStatus, qBounds, attempt, results, allFailed,
               selectedFeatures, showFeaturePopup, qRejected, pageVars>>
\* What a render and its effects write.  These are in none of the tuples above:
\* every action says what it renders.
refVars == <<drawToolRef, measureToolRef, drawDisabled, measureDisabled>>
renderVars == <<layerWhere, refVars>>
vars == <<toolbarVars, drawVars, measureVars, queryVars, renderVars>>

\* ------------------------------------------------------------------ bounds
MaxPoints == 3
MaxRemoveTimers == 1
MaxDblTimers == 1
\* the layers of queryFeaturesInBounds that are toggled on together
MaxActiveLayers == 2

\* the largest coordinate of the grid the helper functions are applied on
MaxCoord == 2
\* the least and the greatest place of a side of the rectangles they are applied to
MinSide == 1
MaxSide == 3

\* ------------------------------------------------------- program constants
\* onMouseUp: if (width < 10 || height < 10)
MinDragPixels == 10

\* ------------------------------------------------------------- small sets
NoPoint == [x |-> -1, y |-> -1]
NoUp == [width |-> -1, height |-> -1]
NoLatLng == [lat |-> -1, lng |-> -1]
NoGesture == [stage |-> 0, pt |-> NoLatLng]
Abs(n) == IF n < 0 THEN -n ELSE n
Min2(a, b) == IF a <= b THEN a ELSE b
Max2(a, b) == IF a >= b THEN a ELSE b

\* Container-pixel positions of the pointer events.  Between them the span is at
\* the threshold on both axes, one pixel below it on one axis, and zero.
Pix == { [x |-> 0, y |-> 0],
         [x |-> MinDragPixels, y |-> MinDragPixels],
         [x |-> MinDragPixels - 1, y |-> MinDragPixels],
         [x |-> MinDragPixels, y |-> 0] }
\* Positions of map clicks (e.latlng), in whole degrees
ClickPts == {[lat |-> 0, lng |-> 0], [lat |-> 1, lng |-> 2]}
\* The vertex lists the measuring functions are applied to on their own
LatLngs == {[lat |-> a, lng |-> b] : a, b \in 0..MaxCoord}
VertexLists == UNION {[1..n -> LatLngs] : n \in 0..MaxPoints}
Modes == {"line", "area"}


\* ==================================================== App and MapInitializer
Tabs == {"layers", "basemaps", "tools"}
\* the tabs that hold the buttons of the actions
WorkTabs == {"layers", "tools"}
LayerNames == {"roads", "bridges", "conduits", "boundaries", "lighting"}
\* The layers queryFeaturesInBounds knows, in the order of its visibleLayers array
QueryLayerOrder == <<"bridges", "conduits", "roads", "boundaries">>
QueryLayers == {QueryLayerOrder[i] : i \in 1..Len(QueryLayerOrder)}

\* The radios of the basemaps tab
Basemaps == {"osm", "esri-streets", "esri-satellite", "esri-topo", "carto-positron",
             "carto-dark"}

\* layerStates[l] read as a condition: undefined, for a key the object lacks, is
\* false
IsOn(ls, l) == l \in DOMAIN ls /\ ls[l]

\* .filter(layer => layer.visible)
VisibleLayers(ls) == {l \in QueryLayers : IsOn(ls, l)}

\* ---- MapInitializer: the layers and the zoom
\* <MapContainer zoom={12}>
InitialZoom == 12
\* how far the user zooms out of, and into, the initial view
MaxZoomOut == 7
MaxZoomIn == 1
Zooms == (InitialZoom - MaxZoomOut)..(InitialZoom + MaxZoomIn)
\* zoomTarget while no zoom animation runs: a zoom the map never has
NoZoom == InitialZoom - MaxZoomOut - 1

ZOOM_THRESHOLDS ==
    [bridges |-> 8, conduits |-> 9, roads |-> 7, boundaries |-> 6, lighting |-> 10]

\* currentZoom >= threshold
shouldShowLayer(l, z) == z >= ZOOM_THRESHOLDS[l]

\* where: shouldShowLayer(l) ? '1=1' : '1=0'
WhereFor(l, z) == IF shouldShowLayer(l, z) THEN "1=1" ELSE "1=0"

\* The layer effect creates every layer, with the zoom of that moment
CreateLayers(z) == [l \in LayerNames |-> WhereFor(l, z)]

\* layersRef.current = { bridges: ..., conduits: ..., roads: ..., boundaries: ...,
\* lighting: ... }: the keys the layers are stored under
LayersRefKeys == LayerNames
\* the keys handleZoomChange reads them under
ZoomChangeKeys ==
    [bridges |-> "bridgeLayer", conduits |-> "conduitLayer", roads |-> "roadsLayer",
     boundaries |-> "boundariesLayer", lighting |-> "lightingLayer"]

\* handleZoomChange: setWhere on every layer it finds in layersRef.current and
\* whose layerStates flag is set
handleZoomChange(where, ls, z) ==
    [l \in LayerNames |->
        IF ZoomChangeKeys[l] \in LayersRefKeys /\ IsOn(ls, l) THEN WhereFor(l, z)
        ELSE where[l]]

\* The state of App (its useState values).  A setter that is handed a value equal
\* to the one it holds renders nothing; a new array, object or Map always does.
\* reportedTotals stands for the numbers the measure tool writes into its message.
\* filterFields and filterResults are only ever set to a new array: the actions
\* that set them render with newObject.
AppState ==
    <<layerStates, basemap, selectedFeature, selectedFeatures, showFeaturePopup, message,
      reportedTotals, isLoadingFeatures, loadingProgress, featureCount,
      displayedFeatures, hasMoreFeatures, currentPage, isLoadingMore, queryCache,
      filterMode, showFilterPopup, selectedFilterLayer, selectedFilterField,
      selectedFilterValue, filterValues, isLoadingValues, visitCount>>
\* The state of Toolbar, and that of the two hooks MapInitializer calls
ToolbarState == <<activeTab, activeTool, isExpanded>>
HookState == <<isDrawing, isMeasuring, measureMode>>

\* What React renders after a handler has run (one render for the handler's
\* batch of updates), and the effects after it.
\*   where: the where clauses as the handler left them
\*   newLayerStates: the handler called setLayerStates (always with a new object)
\*   newObject: the handler set some other state of App to a new array or object
\* App renders when its state has changed, and Toolbar and MapInitializer with
\* it; Toolbar and MapInitializer also render for their own state.
\* - MapInitializer's layer effect has the dependencies [map, layerStates,
\*   handleFeatureClick, setSelectedFeature, layerRefs].  App passes
\*   handleFeatureClick={filterMode ? handleFeatureClick : null}, and
\*   handleFeatureClick is a new function on every render of App: in filter mode
\*   the effect runs again after every render of App, out of it when layerStates
\*   is a new object or filterMode has just been left.  The effect creates the
\*   five layers with the zoom of that moment.
\* - Toolbar renders disabled={drawToolRef.current?.isDrawing} and
\*   disabled={measureToolRef.current?.isMeasuring}: what the refs hold while it
\*   renders.  useDrawTool and useMeasureTool return a new object on every render
\*   of MapInitializer, and the effects that store them in the refs run after
\*   the render.
RenderFrom(where, newLayerStates, newObject) ==
    LET app == newLayerStates \/ newObject \/ AppState' # AppState
        toolbar == app \/ ToolbarState' # ToolbarState
        initializer == app \/ HookState' # HookState
        propChanged == filterMode' # filterMode \/ (filterMode' /\ app)
    IN  /\ layerWhere' = IF newLayerStates \/ propChanged THEN CreateLayers(zoom')
                          ELSE where
        /\ drawDisabled' = IF toolbar THEN drawToolRef ELSE drawDisabled
        /\ measureDisabled' = IF toolbar THEN measureToolRef ELSE measureDisabled
        /\ drawToolRef' = IF initializer THEN isDrawing' ELSE drawToolRef
        /\ measureToolRef' = IF initializer THEN isMeasuring' ELSE measureToolRef

Render(newLayerStates, newObject) == RenderFrom(layerWhere, newLayerStates, newObject)

\* A handler that sets no state of any component: nothing renders
NoRender == UNCHANGED renderVars

\* ================================================================ useDrawTool
\* The hook's state as one record, so that a handler is a function of it.
DrawState ==
    [isDrawing |-> isDrawing, isCurrentlyDrawing |-> isCurrentlyDrawing,
     wasDraggingEnabled |-> wasDraggingEnabled, startPoint |-> startPoint,
     rect |-> rect, rectCorner |-> rectCorner, orphanRects |-> orphanRects,
     removeTimers |-> removeTimers, mapDragging |-> mapDragging,
     queryCalls |-> <<>>, lastUp |-> NoUp, closureLayers |-> closureLayers]

SetDrawState(d) ==
    /\ isDrawing' = d.isDrawing
    /\ isCurrentlyDrawing' = d.isCurrentlyDrawing
    /\ wasDraggingEnabled' = d.wasDraggingEnabled
    /\ startPoint' = d.startPoint
    /\ rect' = d.rect
    /\ rectCorner' = d.rectCorner
    /\ orphanRects' = d.orphanRects
    /\ removeTimers' = d.removeTimers
    /\ mapDragging' = d.mapDragging
    /\ queryCalls' = d.queryCalls
    /\ lastUp' = d.lastUp
    /\ closureLayers' = d.closureLayers

\* if (rectangleRef.current && map.hasLayer(rectangleRef.current)) map.removeLayer(...)
RemoveRect(d) == [d EXCEPT !.rect = IF d.rect = "on" THEN "off" ELSE d.rect]

\* The effect of [map, isDrawing]: its cleanup (handlers off, rectangle removed),
\* then its body again (let isCurrentlyDrawing = false; let wasDraggingEnabled = true).
\* The handlers it installs close over the layerStates of that render; layerStates
\* is not among the dependencies, so a later change of it installs nothing.
EffectRerun(d) ==
    [RemoveRect(d) EXCEPT !.isCurrentlyDrawing = FALSE, !.wasDraggingEnabled = TRUE,
                          !.closureLayers = layerStates]

\* setIsDrawing(v): a re-render, and the effect again, only when the value changes.
SetIsDrawing(d, v) ==
    IF d.isDrawing = v THEN d ELSE EffectRerun([d EXCEPT !.isDrawing = v])

\* queryFeaturesInBounds(bounds, setSelectedFeatures, layerStates, setShowFeaturePopup)
\* as onMouseUp calls it: its bounds and its layerStates argument
QueryCall(b, ls) ==
    [west |-> b.west, east |-> b.east, south |-> b.south, north |-> b.north,
     layerStates |-> ls]

\* L.latLngBounds(a, b)
LatLngBounds(a, b) ==
    [west |-> Min2(a.x, b.x), east |-> Max2(a.x, b.x),
     south |-> Min2(a.y, b.y), north |-> Max2(a.y, b.y)]

DragWidth(d, p) == Abs(p.x - d.startPoint.x)
DragHeight(d, p) == Abs(p.y - d.startPoint.y)

\* Mutant of TooSmall: && in place of ||
MutTooSmall(d, p) == DragWidth(d, p) < MinDragPixels /\ DragHeight(d, p) < MinDragPixels

\* if (width < 10 || height < 10)
TooSmall(d, p) == DragWidth(d, p) < MinDragPixels \/ DragHeight(d, p) < MinDragPixels

\* if (wasDraggingEnabled) map.dragging.enable()
RestoreDragging(d) ==
    [d EXCEPT !.mapDragging = IF d.wasDraggingEnabled THEN TRUE ELSE d.mapDragging]

OnMouseDown(d, p) ==
    IF ~d.isDrawing THEN d
    ELSE [d EXCEPT !.isCurrentlyDrawing = TRUE,
                   !.startPoint = p,
                   !.wasDraggingEnabled = d.mapDragging,
                   !.mapDragging = FALSE,
                   \* rectangleRef.current is overwritten: a rectangle still on
                   \* the map is no longer reachable through the ref
                   !.orphanRects = d.orphanRects \/ d.rect = "on",
                   !.rect = "on",
                   !.rectCorner = p]

OnMouseMove(d, p) ==
    IF ~d.isCurrentlyDrawing \/ d.startPoint = NoPoint THEN d
    ELSE [d EXCEPT !.rectCorner = p]

OnMouseUp(d, p) ==
    IF ~d.isCurrentlyDrawing \/ d.startPoint = NoPoint THEN d
    ELSE LET d1 == [d EXCEPT !.isCurrentlyDrawing = FALSE,
                             !.lastUp = [width |-> DragWidth(d, p),
                                         height |-> DragHeight(d, p)]]
         IN  IF TooSmall(d, p)
             THEN SetIsDrawing(RestoreDragging(RemoveRect(d1)), FALSE)
             ELSE SetIsDrawing(
                      RestoreDragging(
                          [d1 EXCEPT !.queryCalls =
                                         <<QueryCall(LatLngBounds(d.startPoint, p),
                                                     d.closureLayers)>>,
                                     !.removeTimers = d.removeTimers + 1]),
                      FALSE)

\* setTimeout(() => { if (rectangleRef.current && map.hasLayer(...)) removeLayer }, 5000)
OnRemoveTimer(d) == [RemoveRect(d) EXCEPT !.removeTimers = d.removeTimers - 1]

HookStartDrawing(d) == SetIsDrawing(d, TRUE)

HookStopDrawing(d) == RemoveRect(SetIsDrawing(d, FALSE))

\* ------------------------------------------------------ pointer-event actions
MouseDown(p) ==
    /\ SetDrawState(OnMouseDown(DrawState, p))
    /\ UNCHANGED <<toolbarVars, measureVars, queryVars>>
    /\ NoRender

MouseMove(p) ==
    /\ SetDrawState(OnMouseMove(DrawState, p))
    /\ UNCHANGED <<toolbarVars, measureVars, queryVars>>
    /\ NoRender

RemoveTimerFires ==
    /\ removeTimers > 0
    /\ SetDrawState(OnRemoveTimer(DrawState))
    /\ UNCHANGED <<toolbarVars, measureVars, queryVars>>
    /\ NoRender

\* ============================================================= useMeasureTool
\* const miles = totalDistance * 0.000621371, in units of 10^-9 mile
MilesPerMetre == 621371
\* const feet = totalDistance * 3.28084, in units of 10^-5 foot
FeetPerMetre == 328084
\* (Math.PI / 180)^2 * earthRadius^2 * 0.000247105, rounded to a whole acre
AcresPerSqDegree == 3055283
\* (Math.PI / 180)^2 * earthRadius^2 * 3.86102e-7, rounded to a whole square mile
SqMilesPerSqDegree == 4774

\* points[i-1].distanceTo(points[i]): Leaflet's point-to-point distance in
\* metres.  The grid stands for it with the distance along the grid lines.
distanceTo(a, b) == Abs(a.lat - b.lat) + Abs(a.lng - b.lng)

\* for (let i = 1; i < points.length; i++) totalDistance += ...: the loop's
\* total after the pairs that end at the vertices up to the k-th
RECURSIVE TotalDistance(_, _)
TotalDistance(points, k) ==
    IF k < 2 THEN 0
    ELSE TotalDistance(points, k - 1) + distanceTo(points[k - 1], points[k])

MutcalculateDistance(points) ==
    IF Len(points) < 2 THEN [miles |-> 0, feet |-> 0]
    ELSE LET totalDistance == distanceTo(points[1], points[Len(points)])
         IN  [miles |-> totalDistance * MilesPerMetre,
              feet |-> totalDistance * FeetPerMetre]

calculateDistance(points) ==
    IF Len(points) < 2 THEN [miles |-> 0, feet |-> 0]
    ELSE LET totalDistance == TotalDistance(points, Len(points))
         IN  [miles |-> totalDistance * MilesPerMetre,
              feet |-> totalDistance * FeetPerMetre]

\* The shoelace loop of calculateArea after the vertices up to the k-th
\* (i = k - 1 in the code, j = (i + 1) % n)
RECURSIVE ShoelaceLoop(_, _)
ShoelaceLoop(points, k) ==
    IF k = 0 THEN 0
    ELSE LET j == (k % Len(points)) + 1
         IN  ShoelaceLoop(points, k - 1)
                 + points[k].lng * points[j].lat - points[j].lng * points[k].lat

\* area = Math.abs(area) / 2, then the unit factors.  The fields are in halves
\* of an acre and of a square mile, which keeps the division by 2 exact.
MutcalculateArea(points) ==
    IF Len(points) < 3 THEN [acres |-> 0, sqMiles |-> 0]
    ELSE LET area == ShoelaceLoop(points, Len(points))
         IN  [acres |-> area * AcresPerSqDegree, sqMiles |-> area * SqMilesPerSqDegree]

calculateArea(points) ==
    IF Len(points) < 3 THEN [acres |-> 0, sqMiles |-> 0]
    ELSE LET area == Abs(ShoelaceLoop(points, Len(points)))
         IN  [acres |-> area * AcresPerSqDegree, sqMiles |-> area * SqMilesPerSqDegree]

\* The numbers a message of the hook carries
NoTotals == [kind |-> "none", points |-> <<>>,
             distance |-> [miles |-> 0, feet |-> 0], area |-> [acres |-> 0, sqMiles |-> 0]]
DistanceTotals(pts) == [NoTotals EXCEPT !.kind = "distance", !.points = pts,
                                        !.distance = calculateDistance(pts)]
AreaTotals(pts) == [NoTotals EXCEPT !.kind = "area", !.points = pts,
                                    !.area = calculateArea(pts)]
\* handleMapClick and handleMapDoubleClick: a message carries totals when the
\* mode has its required number of vertices
Totals(mode, pts) ==
    IF mode = "line" /\ Len(pts) > 1 THEN DistanceTotals(pts)
    ELSE IF mode = "area" /\ Len(pts) > 2 THEN AreaTotals(pts)
    ELSE NoTotals

MeasureState ==
    [isMeasuring |-> isMeasuring, measureMode |-> measureMode,
     isMeasuringRef |-> isMeasuringRef, isDoubleClickingRef |-> isDoubleClickingRef,
     measurePoints |-> measurePoints, sessionMarkers |-> sessionMarkers,
     oldMarkers |-> oldMarkers, lineOn |-> lineOn, polyOn |-> polyOn,
     dblTimers |-> dblTimers, clearedSinceStart |-> clearedSinceStart,
     reportedTotals |-> reportedTotals, message |-> message]

SetMeasureState(m) ==
    /\ isMeasuring' = m.isMeasuring
    /\ measureMode' = m.measureMode
    /\ isMeasuringRef' = m.isMeasuringRef
    /\ isDoubleClickingRef' = m.isDoubleClickingRef
    /\ measurePoints' = m.measurePoints
    /\ sessionMarkers' = m.sessionMarkers
    /\ oldMarkers' = m.oldMarkers
    /\ lineOn' = m.lineOn
    /\ polyOn' = m.polyOn
    /\ dblTimers' = m.dblTimers
    /\ clearedSinceStart' = m.clearedSinceStart
    /\ reportedTotals' = m.reportedTotals

HookStartMeasuring(m, mode) ==
    [m EXCEPT !.isMeasuring = TRUE,
              !.measureMode = mode,
              !.isMeasuringRef = TRUE,
              !.isDoubleClickingRef = FALSE,
              !.measurePoints = <<>>,
              \* the measure layer is not touched: what earlier sessions drew stays
              !.oldMarkers = m.oldMarkers \/ m.sessionMarkers > 0,
              !.sessionMarkers = 0,
              !.clearedSinceStart = FALSE,
              !.reportedTotals = NoTotals,
              !.message = "Measure Tool (" \o mode
                              \o "): Click to add vertices, double-click to finish"]

HookStopMeasuring(m) ==
    [m EXCEPT !.isMeasuring = FALSE,
              !.isMeasuringRef = FALSE,
              !.isDoubleClickingRef = FALSE,
              !.measurePoints = <<>>,
              !.lineOn = FALSE,
              !.polyOn = FALSE,
              !.reportedTotals = NoTotals,
              !.message = "Measure Tool: Stopped"]

ClearMeasurements(m) ==
    [m EXCEPT !.sessionMarkers = 0,       \* measureLayerRef.current.clearLayers()
              !.oldMarkers = FALSE,
              !.measurePoints = <<>>,
              !.lineOn = FALSE,
              !.polyOn = FALSE,
              !.isDoubleClickingRef = FALSE,
              !.clearedSinceStart = TRUE,
              !.reportedTotals = NoTotals,
              !.message = "All measurements cleared"]

\* if (!isMeasuringRef.current || isDoubleClickingRef.current) return;
ClickAccepted(m) == m.isMeasuringRef /\ ~m.isDoubleClickingRef

ClickMessage(mode, n) ==
    IF mode = "line"
    THEN IF n > 1 THEN "Line: running distance" ELSE "Line Measure: click to add more vertices"
    ELSE IF n > 2 THEN "Area: running area"
         ELSE IF n = 1 THEN "Area Measure: click to add more vertices"
         ELSE "Area Measure: need at least 3 points"

HandleMapClick(m, p) ==
    IF ~ClickAccepted(m) THEN m
    ELSE LET pts == Append(m.measurePoints, p)
             n == Len(pts)
         IN  [m EXCEPT !.measurePoints = pts,
                       !.sessionMarkers = m.sessionMarkers + 1,
                       !.lineOn = IF m.measureMode = "line" /\ n > 1 THEN TRUE ELSE m.lineOn,
                       !.polyOn = IF m.measureMode = "area" /\ n > 2 THEN TRUE ELSE m.polyOn,
                       !.reportedTotals = Totals(m.measureMode, pts),
                       !.message = ClickMessage(m.measureMode, n)]

\* The least number of vertices a measurement of that mode reports a value for
RequiredPoints(mode) == IF mode = "line" THEN 2 ELSE 3

FinalMessage(mode, n) ==
    IF mode = "line"
    THEN IF n > 1 THEN "LINE MEASUREMENT COMPLETE"
         ELSE "Line measurement requires at least 2 points"
    ELSE IF n > 2 THEN "AREA MEASUREMENT COMPLETE"
         ELSE "Area measurement requires at least 3 points"

MutHandleMapDoubleClick(m) ==
    IF ~m.isMeasuringRef THEN m
    ELSE [m EXCEPT !.isDoubleClickingRef = TRUE,
                   !.message = FinalMessage(m.measureMode, Len(m.measurePoints)),
                   !.reportedTotals = Totals(m.measureMode, m.measurePoints),
                   !.isMeasuring = FALSE,
                   !.dblTimers = m.dblTimers + 1]

HandleMapDoubleClick(m) ==
    IF ~m.isMeasuringRef THEN m
    ELSE [m EXCEPT !.isDoubleClickingRef = TRUE,
                   !.message = FinalMessage(m.measureMode, Len(m.measurePoints)),
                   !.reportedTotals = Totals(m.measureMode, m.measurePoints),
                   !.isMeasuring = FALSE,
                   !.isMeasuringRef = FALSE,
                   !.dblTimers = m.dblTimers + 1]

\* setTimeout(() => { isDoubleClickingRef.current = false; }, 100)
OnDblTimer(m) == [m EXCEPT !.isDoubleClickingRef = FALSE, !.dblTimers = m.dblTimers - 1]

\* The vertices a click handler run appended
Appended(m, m2) == Len(m2.measurePoints) - Len(m.measurePoints)

\* -------------------------------------------------------- click-event actions
\* A click that is not part of a double-click gesture.
MapClick(p) ==
    /\ gesture = NoGesture
    /\ Len(measurePoints) < MaxPoints
    /\ LET m2 == HandleMapClick(MeasureState, p)
       IN  /\ SetMeasureState(m2)
           /\ message' = m2.message
    /\ gestureAppends' = 0
    /\ UNCHANGED <<gesture, activeTab, activeTool, drawVars, queryVars>>
    /\ Render(FALSE, FALSE)

\* One double-click gesture: the browser delivers click, click, dblclick, all at
\* the same place, and no other user input in between.
DblGestureClick1(p) ==
    /\ gesture = NoGesture
    /\ Len(measurePoints) + 2 <= MaxPoints
    /\ LET m2 == HandleMapClick(MeasureState, p)
       IN  /\ SetMeasureState(m2)
           /\ message' = m2.message
           /\ gestureAppends' = Appended(MeasureState, m2)
    /\ gesture' = [stage |-> 1, pt |-> p]
    /\ UNCHANGED <<activeTab, activeTool, drawVars, queryVars>>
    /\ Render(FALSE, FALSE)

DblGestureClick2 ==
    /\ gesture.stage = 1
    /\ LET m2 == HandleMapClick(MeasureState, gesture.pt)
       IN  /\ SetMeasureState(m2)
           /\ message' = m2.message
           /\ gestureAppends' = gestureAppends + Appended(MeasureState, m2)
    /\ gesture' = [gesture EXCEPT !.stage = 2]
    /\ UNCHANGED <<activeTab, activeTool, drawVars, queryVars>>
    /\ Render(FALSE, FALSE)

DblGestureDblClick ==
    /\ gesture.stage = 2
    /\ isMeasuringRef => dblTimers < MaxDblTimers
    /\ LET m2 == HandleMapDoubleClick(MeasureState)
       IN  /\ SetMeasureState(m2)
           /\ message' = m2.message
    /\ gesture' = NoGesture
    /\ UNCHANGED <<gestureAppends, activeTab, activeTool, drawVars, queryVars>>
    /\ Render(FALSE, FALSE)

DblTimerFires ==
    /\ dblTimers > 0
    /\ SetMeasureState(OnDblTimer(MeasureState))
    /\ UNCHANGED <<gesture, gestureAppends, toolbarVars, drawVars, queryVars>>
    /\ NoRender

\* ===================================================================== Toolbar
\* What the handlers of the toolbar header, of the basemap radios and of the
\* popup of one feature leave alone
panelFrame == <<toolbarVars, drawVars, measureVars, layerStates, qStatus, qBounds,
                attempt, results, allFailed, selectedFeatures, showFeaturePopup,
                qRejected, loadVars, mounted, applied, overlap, counterVars, zoomVars,
                filterVars>>

\* The button of the toolbar header: onClick={() => setIsExpanded(!isExpanded)}.
\* The Clear All button, the tabs and the panels are rendered while isExpanded.
ToggleExpanded ==
    /\ gesture = NoGesture
    /\ isExpanded' = ~isExpanded
    /\ UNCHANGED <<panelFrame, basemap, selectedFeature>>
    /\ Render(FALSE, FALSE)

\* The tab buttons: onClick={() => setActiveTab(t)}
SetActiveTab(t) ==
    /\ gesture = NoGesture
    /\ isExpanded
    /\ activeTab # t
    /\ activeTab' = t
    /\ UNCHANGED <<activeTool, message, drawVars, measureVars, queryVars>>
    /\ Render(FALSE, FALSE)

\* The radios of the basemaps tab: onChange={(e) => setBasemap(e.target.value)}
SetBasemap(b) ==
    /\ gesture = NoGesture
    /\ isExpanded /\ activeTab = "basemaps"
    /\ b # basemap
    /\ basemap' = b
    /\ UNCHANGED <<panelFrame, isExpanded, selectedFeature>>
    /\ Render(FALSE, FALSE)

\* The tool buttons are rendered on the tools tab only.  Draw Select has
\* disabled={drawToolRef.current?.isDrawing}: the button takes a click when
\* Toolbar's last render found the ref's tool idle.
TbStartDrawing ==
    /\ gesture = NoGesture
    /\ isExpanded /\ activeTab = "tools"
    /\ ~drawDisabled
    /\ SetDrawState(HookStartDrawing(DrawState))
    /\ activeTool' = "draw"
    /\ message' = "Draw Select: Click and drag to draw a selection rectangle"
    /\ UNCHANGED <<activeTab, measureVars, queryVars>>
    /\ Render(FALSE, FALSE)

\* setMessage(`Measure Tool (${mode}): Click on map to start measuring, ...`)
StartMeasuringMessage(mode) ==
    "Measure Tool (" \o mode \o "): Click on map to start measuring, double-click to finish"

\* Line Measure and Area Measure have disabled={measureToolRef.current?.isMeasuring}
TbStartMeasuring(mode) ==
    /\ gesture = NoGesture
    /\ isExpanded /\ activeTab = "tools"
    /\ ~measureDisabled
    /\ SetMeasureState(HookStartMeasuring(MeasureState, mode))
    /\ gestureAppends' = 0
    /\ activeTool' = IF mode = "line" THEN "measure-line" ELSE "measure-area"
    /\ message' = StartMeasuringMessage(mode)
    /\ UNCHANGED <<gesture, activeTab, drawVars, queryVars>>
    /\ Render(FALSE, FALSE)

TbStartFilter ==
    /\ gesture = NoGesture
    /\ isExpanded /\ activeTab = "tools"
    /\ activeTool # "filter"           \* disabled={activeTool === 'filter'}
    /\ filterMode' = TRUE
    /\ activeTool' = "filter"
    /\ showFilterPopup' = TRUE
    /\ message' = "Filter Tool: Select a layer and field to filter by"
    /\ UNCHANGED <<activeTab, drawVars, measureVars, layerStates, qStatus, qBounds,
                   attempt, results, allFailed, selectedFeatures, showFeaturePopup,
                   qRejected, restVars, filterForm, filterNet>>
    /\ Render(FALSE, FALSE)

\* setLayerStates({ roads: false, bridges: false, conduits: false,
\* boundaries: false }): the object has no lighting key
AllLayersOff == [l \in QueryLayers |-> FALSE]

\* stopFilter, which clearAll calls when the filter tool is the active one.  Its
\* setActiveTool(null) and its message ('Filter tool stopped') are overwritten by
\* what clearAll sets after it in the same batch.
StopFilter ==
    /\ filterMode' = FALSE
    /\ showFilterPopup' = FALSE
    /\ selectedFilterLayer' = ""
    /\ selectedFilterField' = ""
    /\ filterValues' = <<>>
    /\ selectedFilterValue' = ""

\* clearAll: clearMeasurements(), then the stop function of the tool that
\* activeTool names, then the selection, the layers and activeTool.
TbClearAll ==
    /\ gesture = NoGesture
    /\ isExpanded
    /\ LET m1 == ClearMeasurements(MeasureState)
           m2 == IF activeTool \in {"measure-line", "measure-area"}
                 THEN HookStopMeasuring(m1) ELSE m1
       IN  SetMeasureState(m2)
    /\ IF activeTool = "draw"
       THEN SetDrawState(
                \* one render for the batch: an effect that runs again sees the
                \* layerStates clearAll has just set
                [HookStopDrawing(DrawState) EXCEPT !.closureLayers =
                    IF isDrawing /\ activeTab = "layers" THEN AllLayersOff ELSE @])
       ELSE UNCHANGED drawVars
    /\ IF activeTool = "filter"
       THEN StopFilter
       ELSE UNCHANGED <<filterMode, showFilterPopup, filterForm>>
    /\ selectedFeatures' = <<>>
    /\ layerStates' = IF activeTab = "layers" THEN AllLayersOff ELSE layerStates
    /\ message' = IF activeTab = "layers"
                  THEN "All tools cleared and all layers unchecked"
                  ELSE "All tools cleared"
    /\ activeTool' = "none"
    /\ UNCHANGED <<gesture, gestureAppends, activeTab, qStatus, qBounds, attempt,
                   results, allFailed, showFeaturePopup, qRejected, restVars, filterNet>>
    /\ Render(activeTab = "layers", TRUE)

\* The layer checkboxes of the layers tab: checked={layerStates[l]} and
\* setLayerStates(prev => ({ ...prev, [l]: e.target.checked })).  A box that
\* is handed true or false shows it, and a click delivers the opposite.  After
\* Clear All the lighting box is handed undefined: what it shows, and so what a
\* click on it delivers, is then up to React DOM and the browser, either value.
\* The new layerStates object re-runs MapInitializer's layer effect, which
\* creates the five layers again.
ToggleLayer(l, checked) ==
    /\ isExpanded /\ activeTab = "layers"
    /\ l \in DOMAIN layerStates => checked = ~layerStates[l]
    /\ LET next == [k \in DOMAIN layerStates \cup {l} |->
                       IF k = l THEN checked ELSE layerStates[k]]
       IN  /\ Cardinality(VisibleLayers(next)) <= MaxActiveLayers
           /\ layerStates' = next
    /\ UNCHANGED <<toolbarVars, drawVars, measureVars, qStatus, qBounds, attempt,
                   results, allFailed, selectedFeatures, showFeaturePopup, qRejected,
                   pageVars>>
    /\ Render(TRUE, FALSE)

\* ========================================================= geometry predicates
\* A position is <<x, y>> (GeoJSON's [lon, lat]), on an integer grid.  A box is
\* [west, south, east, north], as the getWest() ... getNorth() of L.latLngBounds.

\* lon >= bounds.getWest() && lon <= bounds.getEast() && lat >= ... (the inline test)
InBounds(pt, b) ==
    /\ pt[1] >= b.west /\ pt[1] <= b.east
    /\ pt[2] >= b.south /\ pt[2] <= b.north

\* pointInRectangle(point, rect), rect = {minX: west, minY: south, maxX: east, maxY: north}
MutpointInRectangle(pt, b) ==
    /\ pt[1] > b.west /\ pt[1] <= b.east
    /\ pt[2] >= b.south /\ pt[2] <= b.north

pointInRectangle(pt, b) ==
    /\ pt[1] >= b.west /\ pt[1] <= b.east
    /\ pt[2] >= b.south /\ pt[2] <= b.north

ccw(A, B, C) == (C[2] - A[2]) * (B[1] - A[1]) > (B[2] - A[2]) * (C[1] - A[1])

MutlineSegmentsIntersect(p1, p2, p3, p4) ==
    ccw(p1, p3, p4) # ccw(p2, p3, p4)

lineSegmentsIntersect(p1, p2, p3, p4) ==
    /\ ccw(p1, p3, p4) # ccw(p2, p3, p4)
    /\ ccw(p1, p2, p3) # ccw(p1, p2, p4)

\* bottom, right, top, left
RectEdges(b) ==
    << << <<b.west, b.south>>, <<b.east, b.south>> >>,
       << <<b.east, b.south>>, <<b.east, b.north>> >>,
       << <<b.east, b.north>>, <<b.west, b.north>> >>,
       << <<b.west, b.north>>, <<b.west, b.south>> >> >>

lineSegmentIntersectsRectangle(p1, p2, b) ==
    \/ pointInRectangle(p1, b)
    \/ pointInRectangle(p2, b)
    \/ \E k \in 1..4 :
          lineSegmentsIntersect(p1, p2, RectEdges(b)[k][1], RectEdges(b)[k][2])

MutlineIntersectsRectangle(line, b) ==
    \E i \in 1..Len(line) : pointInRectangle(line[i], b)

lineIntersectsRectangle(line, b) ==
    \/ \E i \in 1..Len(line) : pointInRectangle(line[i], b)
    \/ \E i \in 1..(Len(line) - 1) : lineSegmentIntersectsRectangle(line[i], line[i + 1], b)

\* One turn of the ray-casting loop, for vertex i and its predecessor j:
\* ((yi > y) !== (yj > y)) && (x < (xj - xi) * (y - yi) / (yj - yi) + xi).
\* The first conjunct makes yj - yi non-zero; the division is cleared by
\* multiplying both sides with yj - yi, turning the comparison when it is negative.
RayCrosses(pt, vi, vj) ==
    /\ (vi[2] > pt[2]) # (vj[2] > pt[2])
    /\ IF vj[2] - vi[2] > 0
       THEN (pt[1] - vi[1]) * (vj[2] - vi[2]) < (vj[1] - vi[1]) * (pt[2] - vi[2])
       ELSE (pt[1] - vi[1]) * (vj[2] - vi[2]) > (vj[1] - vi[1]) * (pt[2] - vi[2])

\* inside is flipped once per crossing: it ends true iff the crossings are odd
pointInPolygon(pt, ring) ==
    LET n == Len(ring)
        crossings == {i \in 1..n :
                        RayCrosses(pt, ring[i], ring[IF i = 1 THEN n ELSE i - 1])}
    IN  Cardinality(crossings) % 2 = 1

RectCorners(b) ==
    << <<b.west, b.south>>, <<b.east, b.south>>, <<b.east, b.north>>, <<b.west, b.north>> >>

MutpolygonIntersectsRectangle(ring, b) ==
    \E i \in 1..(Len(ring) - 1) : lineSegmentIntersectsRectangle(ring[i], ring[i + 1], b)

polygonIntersectsRectangle(ring, b) ==
    \/ \E i \in 1..(Len(ring) - 1) : lineSegmentIntersectsRectangle(ring[i], ring[i + 1], b)
    \/ \A k \in 1..4 : pointInPolygon(RectCorners(b)[k], ring)

\* ============================================================== raw features
\* A raw feature of a layer response: [id, gtype, ckind, coords].  gtype "None"
\* is a feature without geometry; ckind says what geometry.coordinates is:
\* "array" (coords holds it), "missing" (undefined or null) or "scalar" (a truthy
\* value that is no array, which the handlers cannot destructure or iterate).
Feature(id, gtype, ckind, coords) ==
    [id |-> id, gtype |-> gtype, ckind |-> ckind, coords |-> coords]

LineTypes == {"LineString", "MultiLineString"}
PolygonTypes == {"Polygon", "MultiPolygon"}

\* geometryType === 'LineString' ? [coordinates] : coordinates
LinesOf(f) == IF f.gtype = "LineString" THEN <<f.coords>> ELSE f.coords
\* geometryType === 'Polygon' ? [coordinates] : coordinates
PolygonsOf(f) == IF f.gtype = "Polygon" THEN <<f.coords>> ELSE f.coords

\* if (feature.geometry && feature.geometry.coordinates)
HasCoordinates(f) == f.gtype # "None" /\ f.ckind # "missing"

\* const [lon, lat] = coordinates; both undefined for an empty array, and every
\* comparison with undefined is false
PointKept(f, b) == Len(f.coords) >= 2 /\ InBounds(f.coords, b)

HasPointInBounds(line, b) == \E i \in 1..Len(line) : InBounds(line[i], b)

\* ---- the filter of the spatial fetch (fetchQueryEnhanced, first .then chain)
\* A TypeError is thrown where a scalar is destructured or iterated.
PrimaryThrows(f) ==
    HasCoordinates(f) /\ f.ckind = "scalar"
        /\ f.gtype \in {"Point"} \cup LineTypes \cup PolygonTypes

\* The Polygon branch iterates the polygon (its array of rings) as if it were one
\* ring: each "point" it destructures is a ring, so lon and lat are positions
\* (arrays) or undefined, every comparison and every product with them is made
\* with NaN, and hasPointInBounds, the edge tests and pointInPolygon are all false.
PrimaryKeeps(f, b) ==
    /\ HasCoordinates(f)
    /\ CASE f.gtype = "Point" -> PointKept(f, b)
         [] f.gtype \in LineTypes ->
                \E k \in 1..Len(LinesOf(f)) :
                    \/ HasPointInBounds(LinesOf(f)[k], b)
                    \/ lineIntersectsRectangle(LinesOf(f)[k], b)
         [] f.gtype \in PolygonTypes -> FALSE
         [] OTHER -> FALSE

\* ---- the filter of the unfiltered fallback fetch (second chain)
\* lineBoundingBox of a non-empty line overlaps the bounds
BoundingBoxOverlaps(line, b) ==
    /\ Len(line) > 0
    /\ \E i \in 1..Len(line) : line[i][1] <= b.east    \* minLon <= east
    /\ \E i \in 1..Len(line) : line[i][1] >= b.west    \* maxLon >= west
    /\ \E i \in 1..Len(line) : line[i][2] <= b.north   \* minLat <= north
    /\ \E i \in 1..Len(line) : line[i][2] >= b.south   \* maxLat >= south

RECURSIVE PolySome(_, _, _)
\* polyCoords.some(polygon => ...) from polygon k on.  some() stops at the first
\* polygon its callback keeps; polygon[0].some(...) on a polygon without rings
\* (polygon[0] is undefined) throws, when the iteration gets that far.
PolySome(ps, k, b) ==
    IF k > Len(ps) THEN "false"
    ELSE IF Len(ps[k]) = 0 THEN "threw"
    ELSE IF HasPointInBounds(ps[k][1], b) \/ polygonIntersectsRectangle(ps[k][1], b)
         THEN "true"
    ELSE PolySome(ps, k + 1, b)

FallbackThrows(f, b) ==
    \/ PrimaryThrows(f)
    \/ /\ HasCoordinates(f) /\ f.ckind = "array" /\ f.gtype \in PolygonTypes
       /\ PolySome(PolygonsOf(f), 1, b) = "threw"

FallbackKeeps(f, b) ==
    /\ HasCoordinates(f)
    /\ CASE f.gtype = "Point" -> PointKept(f, b)
         [] f.gtype \in LineTypes ->
                \E k \in 1..Len(LinesOf(f)) :
                    \/ HasPointInBounds(LinesOf(f)[k], b)
                    \/ lineIntersectsRectangle(LinesOf(f)[k], b)
                    \/ BoundingBoxOverlaps(LinesOf(f)[k], b)
         [] f.gtype \in PolygonTypes -> PolySome(PolygonsOf(f), 1, b) = "true"
         [] OTHER -> FALSE

\* { ...feature, layerName: layer.name }
Tag(f, l) == [id |-> f.id, gtype |-> f.gtype, ckind |-> f.ckind, coords |-> f.coords,
              layerName |-> l]
TagAll(fs, l) == [i \in 1..Len(fs) |-> Tag(fs[i], l)]

RECURSIVE FilterSeq(_, _, _)
\* Array.prototype.filter with keep in {"primary", "fallback"}
FilterSeq(fs, b, keep) ==
    IF fs = <<>> THEN <<>>
    ELSE LET rest == FilterSeq(Tail(fs), b, keep)
             k == IF keep = "primary" THEN PrimaryKeeps(Head(fs), b)
                  ELSE FallbackKeeps(Head(fs), b)
         IN  IF k THEN <<Head(fs)>> \o rest ELSE rest

\* ===================================================== queryFeaturesInBounds

\* The drawn box and what the remote services may answer.
Box == [west |-> 1, south |-> 1, east |-> 3, north |-> 3]
Boxes == {Box}

PtIn == Feature(1, "Point", "array", <<2, 2>>)
PtEdge == Feature(2, "Point", "array", <<1, 3>>)
PtOut == Feature(3, "Point", "array", <<4, 2>>)
\* a triangle with one vertex in the box
PolyVertexIn == Feature(4, "Polygon", "array", << << <<2, 2>>, <<4, 2>>, <<4, 4>>, <<2, 2>> >> >>)
\* a line that crosses the box without a vertex in it
LineCross == Feature(5, "LineString", "array", << <<0, 2>>, <<4, 2>> >>)
\* a line around a corner of the box: it misses the box, its bounding box does not
LineAround == Feature(6, "LineString", "array", << <<0, 0>>, <<0, 4>>, <<4, 4>> >>)
NoGeometry == Feature(7, "None", "missing", <<>>)
PolyNoRings == Feature(8, "Polygon", "array", <<>>)
ScalarCoords == Feature(9, "Point", "scalar", <<>>)

Payloads ==
    { <<PtIn, PtEdge, PtOut>>,
      <<PolyVertexIn>>,
      <<LineCross, LineAround>>,
      <<NoGeometry, PtIn>>,
      <<PolyNoRings, PtIn>>,
      <<ScalarCoords, PtIn>> }

\* ---- the request of the spatial fetch
\* Degrees are counted in thousandths
NoPlan == [fn |-> "none"]
BroadCap == 1000
SpatialCap == 500
LowZoomExpansion == 100
NormalExpansion == 1

\* fetchQueryEnhanced(layer, bounds, zoomLevel): the request it builds
fetchQueryEnhanced(l, zoomLevel) ==
    IF zoomLevel < 8
    THEN [fn |-> "fetchQueryEnhanced", layer |-> l, kind |-> "broad",
          cap |-> BroadCap, expansion |-> 0]
    ELSE IF zoomLevel < 10
    THEN [fn |-> "fetchQueryEnhanced", layer |-> l, kind |-> "spatial",
          cap |-> SpatialCap, expansion |-> LowZoomExpansion]
    ELSE [fn |-> "fetchQueryEnhanced", layer |-> l, kind |-> "spatial",
          cap |-> SpatialCap, expansion |-> NormalExpansion]

\* fetchQuery(layer, bounds): return fetchQueryEnhanced(layer, bounds, 10)
fetchQuery(l) == fetchQueryEnhanced(l, 10)

\* ---- what each attempt's continuation makes of a response
\* featureCollection.features.map(feature => ({ ...feature, layerName })): no filter
NativeResult(payload, l, b) == TagAll(payload, l)

\* first chain: a thrown filter lands in its .catch, which starts the fallback fetch
PrimaryCaught(payload) == \E i \in 1..Len(payload) : PrimaryThrows(payload[i])
PrimaryResult(payload, l, b) == TagAll(FilterSeq(payload, b, "primary"), l)

\* second chain, whose .catch returns []
FallbackCaught(payload, b) == \E i \in 1..Len(payload) : FallbackThrows(payload[i], b)
FallbackResult(payload, l, b) == TagAll(FilterSeq(payload, b, "fallback"), l)
\* Mutant of FallbackFailure: the last .catch is missing and the rejection
\* reaches Promise.all
MutFallbackFailure == [status |-> "rejected", value |-> <<>>]

\* .catch(fallbackError => { ...; return []; })
FallbackFailure == [status |-> "done", value |-> <<>>]

\* how: "failed" (an error, a timeout, a response the handler could not process)
\* or "answered"
Settle(l, status, value, how) ==
    /\ attempt' = [attempt EXCEPT ![l] = status]
    /\ results' = [results EXCEPT ![l] = value]
    /\ allFailed' = [allFailed EXCEPT ![l] = @ /\ how = "failed"]

queryFrame == <<toolbarVars, drawVars, measureVars, layerStates, pageVars>>
\* queryFrame but for the request built last
nativeFrame == <<toolbarVars, drawVars, measureVars, layerStates, loadVars, mounted,
                 applied, overlap, counterVars, mapZoom, filterVars, panelVars>>

RECURSIVE Flat(_, _)
\* results.flat(), over the layers of the query in visibleLayers order
Flat(i, att) ==
    IF i > Len(QueryLayerOrder) THEN <<>>
    ELSE (IF att[QueryLayerOrder[i]] = "done" THEN results[QueryLayerOrder[i]] ELSE <<>>)
         \o Flat(i + 1, att)

\* The body of queryFeaturesInBounds up to the return of its queryPromises
StartQuery(b, ls) ==
    /\ qBounds' = b
    /\ allFailed' = [l \in QueryLayers |-> TRUE]
    /\ results' = [l \in QueryLayers |-> <<>>]
    /\ qRejected' = FALSE
    /\ IF VisibleLayers(ls) = {}
       THEN /\ selectedFeatures' = <<>>
            /\ showFeaturePopup' = TRUE
            /\ qStatus' = "delivered"
            /\ attempt' = [l \in QueryLayers |-> "none"]
       ELSE /\ attempt' = [l \in QueryLayers |->
                              IF l \in VisibleLayers(ls) THEN "native" ELSE "none"]
            /\ qStatus' = "running"
            /\ UNCHANGED <<selectedFeatures, showFeaturePopup>>

\* The first Draw-Select query
QueryFeaturesInBounds(b) ==
    /\ qStatus = "idle"
    /\ StartQuery(b, layerStates)
    /\ UNCHANGED queryFrame
    /\ Render(FALSE, VisibleLayers(layerStates) = {})

\* One more Draw-Select query, after the previous one has delivered
QueryAgain(b) ==
    /\ qStatus = "delivered"
    /\ StartQuery(b, layerStates)
    /\ UNCHANGED queryFrame
    /\ Render(FALSE, VisibleLayers(layerStates) = {})

\* ---- the mouseup of the draw tool.  onMouseUp calls queryFeaturesInBounds with
\* the layerStates of its closure before it returns; what the model follows from
\* then on is that call, the latest one.
MouseUp(p) ==
    LET d == OnMouseUp(DrawState, p)
        queried == d.queryCalls # <<>>
    IN  /\ (isCurrentlyDrawing /\ ~TooSmall(DrawState, p)) => removeTimers < MaxRemoveTimers
        /\ SetDrawState(d)
        /\ IF queried
           THEN StartQuery(LatLngBounds(startPoint, p), closureLayers)
           ELSE UNCHANGED <<qStatus, qBounds, attempt, results, allFailed,
                            selectedFeatures, showFeaturePopup, qRejected>>
        /\ UNCHANGED <<toolbarVars, measureVars, layerStates, pageVars>>
        /\ Render(FALSE, queried /\ VisibleLayers(closureLayers) = {})

\* resolve(fetchQuery(layer, bounds)) in the callback of a layer's native query:
\* the request of the spatial fetch is built and sent before the callback returns
FetchQuery(l) ==
    fetchPlan' = [plan |-> fetchQuery(l), mapZoom |-> zoom, fn |-> "fetchQuery"]

\* layerQuery.within(bounds).run((error, featureCollection) => ...).  The layers
\* that have a callback are those that were visible when queryFeaturesInBounds
\* was called.
NativeError(l) ==
    /\ qStatus = "running" /\ attempt[l] = "native"
    /\ Settle(l, "fetch", <<>>, "failed")
    /\ FetchQuery(l)
    /\ UNCHANGED <<nativeFrame, qStatus, qBounds, selectedFeatures, showFeaturePopup, qRejected>>
    /\ NoRender

MutNativeEmpty(l) ==
    /\ qStatus = "running" /\ attempt[l] = "native"
    /\ Settle(l, "fallback", <<>>, "answered")
    /\ FetchQuery(l)
    /\ UNCHANGED <<nativeFrame, qStatus, qBounds, selectedFeatures, showFeaturePopup, qRejected>>
    /\ NoRender

NativeEmpty(l) ==
    /\ qStatus = "running" /\ attempt[l] = "native"
    /\ Settle(l, "fetch", <<>>, "answered")
    /\ FetchQuery(l)
    /\ UNCHANGED <<nativeFrame, qStatus, qBounds, selectedFeatures, showFeaturePopup, qRejected>>
    /\ NoRender

NativeFeatures(l, payload) ==
    /\ qStatus = "running" /\ attempt[l] = "native"
    /\ Settle(l, "done", NativeResult(payload, l, qBounds), "answered")
    /\ UNCHANGED <<queryFrame, qStatus, qBounds, selectedFeatures, showFeaturePopup, qRejected>>
    /\ NoRender

\* fetch(queryUrl, {signal: AbortSignal.timeout(15000)}): a network error, the
\* timeout, a status that is not ok, or a body that is no JSON
FetchFails(l) ==
    /\ qStatus = "running" /\ attempt[l] = "fetch"
    /\ Settle(l, "fallback", <<>>, "failed")
    /\ UNCHANGED <<queryFrame, qStatus, qBounds, selectedFeatures, showFeaturePopup, qRejected>>
    /\ NoRender

FetchSucceeds(l, payload) ==
    /\ qStatus = "running" /\ attempt[l] = "fetch"
    /\ IF PrimaryCaught(payload)
       THEN Settle(l, "fallback", <<>>, "failed")
       ELSE Settle(l, "done", PrimaryResult(payload, l, qBounds), "answered")
    /\ UNCHANGED <<queryFrame, qStatus, qBounds, selectedFeatures, showFeaturePopup, qRejected>>
    /\ NoRender

\* fetch(fallbackUrl, {signal: AbortSignal.timeout(10000)})
FallbackFails(l) ==
    /\ qStatus = "running" /\ attempt[l] = "fallback"
    /\ Settle(l, FallbackFailure.status, FallbackFailure.value, "failed")
    /\ UNCHANGED <<queryFrame, qStatus, qBounds, selectedFeatures, showFeaturePopup, qRejected>>
    /\ NoRender

FallbackSucceeds(l, payload) ==
    /\ qStatus = "running" /\ attempt[l] = "fallback"
    /\ IF FallbackCaught(payload, qBounds)
       THEN Settle(l, FallbackFailure.status, FallbackFailure.value, "failed")
       ELSE Settle(l, "done", FallbackResult(payload, l, qBounds), "answered")
    /\ UNCHANGED <<queryFrame, qStatus, qBounds, selectedFeatures, showFeaturePopup, qRejected>>
    /\ NoRender

\* Promise.all(queryPromises).then(...).catch(...)
AllSettled == \A l \in QueryLayers : attempt[l] \in {"none", "done"}
AnyRejected == \E l \in QueryLayers : attempt[l] = "rejected"

Deliver ==
    /\ qStatus = "running"
    /\ AnyRejected \/ AllSettled
    /\ IF AnyRejected
       THEN /\ selectedFeatures' = <<>>
            /\ qRejected' = TRUE
       ELSE /\ selectedFeatures' = Flat(1, attempt)
            /\ qRejected' = FALSE
    /\ showFeaturePopup' = TRUE
    /\ qStatus' = "delivered"
    /\ UNCHANGED <<queryFrame, qBounds, attempt, results, allFailed>>
    /\ Render(FALSE, TRUE)

\* ================================= App: loadFeaturesWithProgress and its callers
\* loadInitialFeatures is handed to MapInitializer, which never calls it, and
\* the Load More button that calls loadMoreFeatures is rendered only while
\* hasMoreFeatures, which only these two functions set.  The program runs
\* neither, nor loadFeaturesWithProgress and the cache functions they call:
\* queryCache, isLoadingFeatures, loadingProgress, featureCount,
\* displayedFeatures, hasMoreFeatures, currentPage and isLoadingMore stay as
\* useState made them, and no action writes them.

\* The map's viewport before and after a pan
PannedBox == [west |-> 2, south |-> 1, east |-> 4, north |-> 3]
ViewBoxes == {Box, PannedBox}

\* ============================================ helper functions on their own
\* The measuring and geometry functions applied to arguments of a bounded
\* grid, one application per run.  Vertices are at the even places 0, 2, ...,
\* rectangle sides at any whole place from MinSide to MaxSide, so that a side
\* can pass through a vertex as well as between two vertices.
Positions == {<<2 * a, 2 * b>> : a, b \in 0..MaxCoord}
TestPoints == {<<x, y>> : x, y \in 0..(2 * MaxCoord)}
Sides == {sd \in (MinSide..MaxSide) \X (MinSide..MaxSide) : sd[1] < sd[2]}
Rects == {[west |-> h[1], east |-> h[2], south |-> v[1], north |-> v[2]] : h, v \in Sides}
\* Lines of up to three vertices
Polylines ==
    {<<>>} \cup {<<a>> : a \in Positions} \cup {<<a, b>> : a, b \in Positions}
        \cup {<<a, b, c>> : a, b, c \in Positions}
\* Closed rings of three and of four corners, each listed from its least
\* corner (a ring is the same ring from whichever corner it is listed), and
\* rings of fewer than 4 points
NotAfter(a, b) == a[1] < b[1] \/ (a[1] = b[1] /\ a[2] <= b[2])
FromLeastCorner(ring) == \A i \in 1..Len(ring) : NotAfter(ring[1], ring[i])
ClosedRings ==
    {ring \in {<<a, b, c, a>> : a, b, c \in Positions}
               \cup {<<a, b, c, d, a>> : a, b, c, d \in Positions} :
        FromLeastCorner(ring)}
Rings == ClosedRings \cup Polylines

helperFrame == <<toolbarVars, drawVars, measureVars, layerStates, qStatus, qBounds,
                 attempt, results, allFailed, selectedFeatures, showFeaturePopup,
                 qRejected, loadVars, mounted, sideVars>>

Apply(call) ==
    /\ applied' = call
    /\ UNCHANGED helperFrame
    /\ NoRender

ApplyCalculateArea(points) ==
    Apply([fn |-> "calculateArea", points |-> points, result |-> calculateArea(points)])

ApplyPointInRectangle(pt, b) ==
    Apply([fn |-> "pointInRectangle", point |-> pt, rect |-> b,
           result |-> pointInRectangle(pt, b)])

ApplyLineSegmentsIntersect(p1, p2, p3, p4) ==
    Apply([fn |-> "lineSegmentsIntersect", p1 |-> p1, p2 |-> p2, p3 |-> p3, p4 |-> p4,
           result |-> lineSegmentsIntersect(p1, p2, p3, p4)])

ApplyLineIntersectsRectangle(line, b) ==
    Apply([fn |-> "lineIntersectsRectangle", line |-> line, rect |-> b,
           result |-> lineIntersectsRectangle(line, b)])

ApplyPolygonIntersectsRectangle(ring, b) ==
    Apply([fn |-> "polygonIntersectsRectangle", ring |-> ring, rect |-> b,
           result |-> polygonIntersectsRectangle(ring, b)])

\* The client-side filter of a layer response, on its own: path "primary" is
\* the .then of the spatial fetch, "fallback" that of the unfiltered fetch.
\* thrown says the filter callback threw and the chain's .catch took over.
UnknownType == Feature(10, "GeometryCollection", "array", <<>>)
NoCoordinates == Feature(11, "Point", "missing", <<>>)
\* a multipolygon whose second polygon has no rings, after and before a triangle
RingsAfter == Feature(12, "MultiPolygon", "array",
                      << << << <<2, 2>>, <<4, 2>>, <<4, 4>>, <<2, 2>> >> >>, <<>> >>)
RingsBefore == Feature(13, "MultiPolygon", "array",
                       << <<>>, << << <<2, 2>>, <<4, 2>>, <<4, 4>>, <<2, 2>> >> >> >>)
FilterPayloads == Payloads \cup {<<UnknownType, PtIn>>, <<NoCoordinates, PtEdge>>,
                                 <<RingsAfter, PtIn>>, <<RingsBefore, PtIn>>}

ClientFilter(path, payload, b) ==
    LET thrown == IF path = "primary" THEN PrimaryCaught(payload)
                  ELSE FallbackCaught(payload, b)
    IN  [fn |-> "clientFilter", path |-> path, payload |-> payload, rect |-> b,
         thrown |-> thrown,
         result |-> IF thrown THEN <<>> ELSE FilterSeq(payload, b, path)]

ApplyClientFilter(path, payload, b) == Apply(ClientFilter(path, payload, b))

\* ================================================================ App unmount
\* The cleanup of App's mount effect: drawToolRef.current.stopDrawing() and
\* measureToolRef.current.stopMeasuring(), with no clearMeasurements() before
\* it.  The state setters of the two hooks and setMessage are called on a
\* component that is going away, so the message on screen is left as it is.
\* Before the tools, the cleanup removes every layer of layerRefs.current from the
\* map and empties layerRefs.current; after them it sets the two tool refs to
\* null.
NoLayers == [l \in {} |-> "1=0"]

AppUnmount ==
    /\ mounted
    /\ mounted' = FALSE
    /\ SetDrawState(HookStopDrawing(DrawState))
    /\ SetMeasureState(HookStopMeasuring(MeasureState))
    /\ UNCHANGED <<toolbarVars, gesture, gestureAppends, layerStates, qStatus, qBounds,
                   attempt, results, allFailed, selectedFeatures, showFeaturePopup,
                   qRejected, loadVars, applied, sideVars>>
    /\ layerWhere' = NoLayers
    /\ drawToolRef' = FALSE
    /\ measureToolRef' = FALSE
    /\ UNCHANGED <<drawDisabled, measureDisabled>>

\* ===================================== Draw-Select queries overlapping in time
\* onMouseUp calls queryFeaturesInBounds on every drag that is large enough,
\* whatever became of the calls before it.  A call's layer requests write
\* nothing but the console until its Promise.all settles, so a call in flight
\* is its box, its layers and, once settled, the list it handed to
\* setSelectedFeatures.
MaxQueries == 2

\* What the promise of one layer can resolve to: the native query's features
\* untouched, the spatial fetch's or the fallback fetch's features filtered, or
\* the empty list of the last .catch
LayerAnswers(l, b) ==
    {NativeResult(payload, l, b) : payload \in Payloads}
        \cup {PrimaryResult(payload, l, b) : payload \in {p \in Payloads : ~PrimaryCaught(p)}}
        \cup {FallbackResult(payload, l, b) : payload \in {p \in Payloads : ~FallbackCaught(p, b)}}
        \cup {FallbackFailure.value}

RECURSIVE FlatAnswers(_, _, _)
\* results.flat() of one call: one answer per layer, in visibleLayers order
FlatAnswers(i, layers, b) ==
    IF i > Len(QueryLayerOrder) THEN {<<>>}
    ELSE LET l == QueryLayerOrder[i]
             rest == FlatAnswers(i + 1, layers, b)
         IN  IF l \in layers
             THEN {a \o r : a \in LayerAnswers(l, b), r \in rest}
             ELSE rest

SettledCount == Cardinality({i \in 1..Len(overlap) : overlap[i].settled > 0})

overlapFrame == <<toolbarVars, drawVars, measureVars, layerStates, qStatus, qBounds,
                  attempt, results, allFailed, qRejected, loadVars, mounted, applied,
                  counterVars, zoomVars, filterVars, panelVars>>

\* queryFeaturesInBounds(bounds, setSelectedFeatures, layerStates, setShowFeaturePopup)
\* up to Promise.all(queryPromises): nothing looks at a call already in flight
IssueQuery(b) ==
    /\ Len(overlap) < MaxQueries
    /\ IF VisibleLayers(layerStates) = {}
       THEN /\ selectedFeatures' = <<>>
            /\ showFeaturePopup' = TRUE
            /\ UNCHANGED overlap
       ELSE /\ overlap' = Append(overlap, [bounds |-> b,
                                           layers |-> VisibleLayers(layerStates),
                                           settled |-> 0,
                                           value |-> <<>>])
            /\ UNCHANGED <<selectedFeatures, showFeaturePopup>>
    /\ UNCHANGED overlapFrame
    /\ Render(FALSE, VisibleLayers(layerStates) = {})

\* Mutant of SettleQuery: a call that is no longer the latest one is discarded
MutSettleQuery(i, value) ==
    /\ i \in 1..Len(overlap)
    /\ overlap[i].settled = 0
    /\ value \in FlatAnswers(1, overlap[i].layers, overlap[i].bounds)
    /\ overlap' = [overlap EXCEPT ![i] = [@ EXCEPT !.settled = SettledCount + 1,
                                                   !.value = value]]
    /\ IF i = Len(overlap)
       THEN /\ selectedFeatures' = value
            /\ showFeaturePopup' = TRUE
       ELSE UNCHANGED <<selectedFeatures, showFeaturePopup>>
    /\ UNCHANGED overlapFrame
    /\ Render(FALSE, i = Len(overlap))

\* Promise.all(queryPromises).then(results => { setSelectedFeatures(results.flat());
\* setShowFeaturePopup(true) }) of the i-th call
SettleQuery(i, value) ==
    /\ i \in 1..Len(overlap)
    /\ overlap[i].settled = 0
    /\ value \in FlatAnswers(1, overlap[i].layers, overlap[i].bounds)
    /\ overlap' = [overlap EXCEPT ![i] = [@ EXCEPT !.settled = SettledCount + 1,
                                                   !.value = value]]
    /\ selectedFeatures' = value
    /\ showFeaturePopup' = TRUE
    /\ UNCHANGED overlapFrame
    /\ Render(FALSE, TRUE)

\* ============================================================ NinetiesCounter
\* The counter file is localStorage[COUNTER_KEY], the session mark
\* sessionStorage[SESSION_KEY].  A browser session ends when its tab is closed:
\* sessionStorage is emptied and localStorage stays.  The singleton is
\* constructed when the module is first imported in a page, which App's effect
\* updateVisitorCounter does.  In SpecCounter the rest of App stays as it is
\* after construction.
\* the visits the counter file counts up to
MaxVisits == 11
\* the visits counted under 'vibemapVisitCount' when the import has failed
MaxFallbackVisits == 2

\* A stored decimal string is the sequence of its digits
RECURSIVE toString(_)
\* count.toString()
toString(n) == IF n < 10 THEN <<n>> ELSE Append(toString(n \div 10), n % 10)

RECURSIVE parseInt(_)
\* parseInt(count, 10)
parseInt(str) ==
    IF Len(str) = 0 THEN 0
    ELSE parseInt(SubSeq(str, 1, Len(str) - 1)) * 10 + str[Len(str)]

\* getItem of a key that is not there
NoItem == "null"
\* 'session_' + Date.now() + '_' + Math.random().toString(36).substr(2, 9): the
\* code only asks whether there is one
SessionId == "session_"
NoCount == <<>>
\* returned: the number the call returned; flag: the boolean it returned;
\* counted: handleVisitorCount has run since the tab was opened or the counter
\* reset; direct: an importer's isNewSession() has run since then and no
\* handleVisitorCount yet;
\* failed: a storage call has thrown since the tab was opened
NoVisit == [op |-> "none", returned |-> 0, flag |-> FALSE, turn |-> 0, counted |-> FALSE,
            direct |-> FALSE, failed |-> FALSE]
\* The calls on localStorage and sessionStorage, any of which the browser may
\* refuse (storage disabled, quota exceeded); e is the set of those that throw
\* while one function runs
CounterCalls == {"localStorage.getItem", "localStorage.setItem"}
SessionCalls == {"sessionStorage.getItem", "sessionStorage.setItem"}
RemoveCalls == {"localStorage.removeItem", "sessionStorage.removeItem"}

\* if (!localStorage.getItem(COUNTER_KEY)) localStorage.setItem(COUNTER_KEY, '0');
\* its catch logs the error
initializeCounter(store, e) ==
    IF "localStorage.getItem" \in e THEN [store |-> store, threw |-> TRUE]
    ELSE IF store # NoCount THEN [store |-> store, threw |-> FALSE]
    ELSE IF "localStorage.setItem" \in e THEN [store |-> store, threw |-> TRUE]
    ELSE [store |-> toString(0), threw |-> FALSE]

\* count ? parseInt(count, 10) : 0; its catch returns 0
readCounter(store, e) ==
    IF "localStorage.getItem" \in e THEN 0
    ELSE IF store = NoCount THEN 0 ELSE parseInt(store)

\* localStorage.setItem(COUNTER_KEY, count.toString()); its catch returns false
\* and leaves the store as it was
writeCounter(store, count, e) ==
    IF "localStorage.setItem" \in e THEN store ELSE toString(count)

\* incrementCounter: the new store and the value returned.  It does not read
\* what writeCounter returns; readCounter and writeCounter catch what they
\* throw, so its own catch (return 1) has nothing to catch.
incrementCounter(store, e) ==
    LET newCount == readCounter(store, e) + 1
    IN  [store |-> writeCounter(store, newCount, e), returned |-> newCount,
         threw |-> e \cap CounterCalls # {}]

\* isNewSession: a session id is stored when there was none; its catch returns
\* true ("Assume new session if error")
isNewSession(session, e) ==
    IF "sessionStorage.getItem" \in e
    THEN [isNew |-> TRUE, session |-> session, threw |-> TRUE]
    ELSE IF session # NoItem
    THEN [isNew |-> FALSE, session |-> session, threw |-> FALSE]
    ELSE IF "sessionStorage.setItem" \in e
    THEN [isNew |-> TRUE, session |-> session, threw |-> TRUE]
    ELSE [isNew |-> TRUE, session |-> SessionId, threw |-> FALSE]

\* handleVisitorCount (it awaits nothing, so it runs in one piece): the stores
\* it leaves and the count it returns.  The methods it calls catch what they
\* throw and generateDigitImages is handed a number, so its own catch (return 1)
\* has nothing to catch.
handleVisitorCount(store, session, e) ==
    LET s == isNewSession(session, e)
        inc == incrementCounter(store, e)
    IN  IF s.isNew
        THEN [store |-> inc.store, session |-> s.session, returned |-> inc.returned,
              threw |-> s.threw \/ inc.threw]
        ELSE [store |-> store, session |-> s.session, returned |-> readCounter(store, e),
              threw |-> "localStorage.getItem" \in e]

counterFrame == <<toolbarVars, drawVars, measureVars, layerStates, qStatus, qBounds,
                  attempt, results, allFailed, selectedFeatures, showFeaturePopup,
                  qRejected, loadVars, mounted, applied, overlap, zoomVars, filterVars,
                  panelVars>>
\* What App's visitor counter effect reads and writes besides the counter
pageCounter == <<visitStore, visitCount, counterModule, effectCount>>

\* The module has been evaluated in this page: its exports and the singleton
\* (export default ninetiesCounter) are in the hands of its importers
ModuleLoaded == counterModule \in {"imported", "counted", "loaded"}

\* What a call of handleVisitorCount leaves in the stores and in the record of
\* the last call
HandleVisitorCountCall(e) ==
    LET call == handleVisitorCount(counterStore, sessionStore, e)
    IN  /\ counterStore' = call.store
        /\ sessionStore' = call.session
        /\ visit' = [visit EXCEPT !.op = "handleVisitorCount",
                                  !.returned = call.returned,
                                  !.flag = FALSE,
                                  !.turn = 1 - @,
                                  !.counted = TRUE,
                                  !.direct = FALSE,
                                  !.failed = @ \/ call.threw]

\* handleNinetiesVisitorCount called by another importer of the module
HandleVisitorCount(e) ==
    /\ ModuleLoaded
    /\ readCounter(counterStore, {}) < MaxVisits
    /\ HandleVisitorCountCall(e)
    /\ UNCHANGED <<pageCounter, counterFrame>>
    /\ NoRender

\* App's effect updateVisitorCounter when its import is answered.  An import
\* that succeeds has evaluated the module: new NinetiesCounter() has run
\* initializeCounter(), and the effect goes on in a later microtask.  An import
\* that fails takes the effect to its catch: the count kept under
\* 'vibemapVisitCount' is raised and shown, and 1 is shown when that storage
\* throws.  An App that was unmounted meanwhile renders nothing.
UpdateVisitorCounterImport(importFails, e) ==
    /\ counterModule = "pending"
    /\ IF ~importFails
       THEN /\ counterModule' = "imported"
            /\ counterStore' = initializeCounter(counterStore, e).store
            /\ visit' = [visit EXCEPT !.op = "initializeCounter", !.returned = 0,
                                      !.flag = FALSE, !.turn = 1 - @,
                                      !.failed = @ \/ initializeCounter(counterStore, e).threw]
            /\ UNCHANGED <<sessionStore, visitStore, visitCount, effectCount>>
            /\ UNCHANGED counterFrame
            /\ NoRender
       ELSE LET newCount == readCounter(visitStore, {}) + 1
                threw == e \cap CounterCalls # {}
            IN  /\ readCounter(visitStore, {}) < MaxFallbackVisits
                /\ counterModule' = "failed"
                /\ visitStore' = IF threw THEN visitStore ELSE toString(newCount)
                /\ visitCount' = IF ~mounted THEN visitCount
                                 ELSE IF threw THEN 1 ELSE newCount
                /\ UNCHANGED <<counterStore, sessionStore, visit, effectCount>>
                /\ UNCHANGED counterFrame
                /\ IF mounted THEN Render(FALSE, FALSE) ELSE NoRender

\* The effect after `await import(...)`: handleNinetiesVisitorCount() is called
\* and its promise awaited
UpdateVisitorCounterCall(e) ==
    /\ counterModule = "imported"
    /\ readCounter(counterStore, {}) < MaxVisits
    /\ counterModule' = "counted"
    /\ HandleVisitorCountCall(e)
    /\ effectCount' = handleVisitorCount(counterStore, sessionStore, e).returned
    /\ UNCHANGED <<visitStore, visitCount, counterFrame>>
    /\ NoRender

\* The effect after `await handleNinetiesVisitorCount()`: setVisitCount(count)
UpdateVisitorCounterShow ==
    /\ counterModule = "counted"
    /\ counterModule' = "loaded"
    /\ visitCount' = IF mounted THEN effectCount ELSE visitCount
    /\ effectCount' = 0
    /\ UNCHANGED <<counterStore, sessionStore, visit, visitStore, counterFrame>>
    /\ IF mounted THEN Render(FALSE, FALSE) ELSE NoRender

\* incrementNinetiesVisitorCount: incrementCounter called on its own
IncrementCounter(e) ==
    /\ ModuleLoaded
    /\ readCounter(counterStore, {}) < MaxVisits
    /\ counterStore' = incrementCounter(counterStore, e).store
    /\ visit' = [visit EXCEPT !.op = "incrementCounter",
                              !.returned = incrementCounter(counterStore, e).returned,
                              !.flag = FALSE,
                              !.turn = 1 - @,
                              !.failed = @ \/ incrementCounter(counterStore, e).threw]
    /\ UNCHANGED <<sessionStore, pageCounter, counterFrame>>
    /\ NoRender

\* Mutant of ResetCounter: sessionStorage.removeItem(SESSION_KEY) is missing
MutResetCounter(e) ==
    /\ ModuleLoaded
    /\ counterStore' = IF "localStorage.removeItem" \in e THEN counterStore
                       ELSE initializeCounter(NoCount, e).store
    /\ visit' = [visit EXCEPT !.op = "resetCounter", !.returned = 0,
                              !.flag = "localStorage.removeItem" \notin e,
                              !.turn = 1 - @,
                              !.counted = FALSE,
                              !.direct = FALSE,
                              !.failed = @ \/ "localStorage.removeItem" \in e
                                           \/ initializeCounter(NoCount, e).threw]
    /\ UNCHANGED <<sessionStore, pageCounter, counterFrame>>
    /\ NoRender

\* resetNinetiesCounter: both keys removed, then initializeCounter(); a
\* removeItem that throws ends it where it is (its catch returns false)
ResetCounter(e) ==
    /\ ModuleLoaded
    /\ counterStore' = IF "localStorage.removeItem" \in e THEN counterStore
                       ELSE IF "sessionStorage.removeItem" \in e THEN NoCount
                       ELSE initializeCounter(NoCount, e).store
    /\ sessionStore' = IF e \cap RemoveCalls # {} THEN sessionStore ELSE NoItem
    /\ visit' = [visit EXCEPT !.op = "resetCounter", !.returned = 0,
                              !.flag = e \cap RemoveCalls = {},
                              !.turn = 1 - @,
                              !.counted = FALSE,
                              !.direct = FALSE,
                              !.failed = @ \/ e \cap RemoveCalls # {}
                                           \/ initializeCounter(NoCount, e).threw]
    /\ UNCHANGED <<pageCounter, counterFrame>>
    /\ NoRender

\* The methods an importer calls on the singleton it is handed by
\* `export default ninetiesCounter`.  readCounter, generateDigitImages and
\* getCounterStats write nothing.
\* ninetiesCounter.isNewSession()
IsNewSession(e) ==
    /\ ModuleLoaded
    /\ sessionStore' = isNewSession(sessionStore, e).session
    /\ visit' = [visit EXCEPT !.op = "isNewSession", !.returned = 0,
                              !.flag = isNewSession(sessionStore, e).isNew,
                              !.turn = 1 - @,
                              !.direct = @ \/ ~visit.counted,
                              !.failed = @ \/ isNewSession(sessionStore, e).threw]
    /\ UNCHANGED <<counterStore, pageCounter, counterFrame>>
    /\ NoRender

\* ninetiesCounter.writeCounter(count)
WriteCounter(count, e) ==
    /\ ModuleLoaded
    /\ counterStore' = writeCounter(counterStore, count, e)
    /\ visit' = [visit EXCEPT !.op = "writeCounter", !.returned = 0,
                              !.flag = "localStorage.setItem" \notin e,
                              !.turn = 1 - @,
                              !.failed = @ \/ "localStorage.setItem" \in e]
    /\ UNCHANGED <<sessionStore, pageCounter, counterFrame>>
    /\ NoRender

\* ninetiesCounter.initializeCounter()
InitializeCounter(e) ==
    /\ ModuleLoaded
    /\ counterStore' = initializeCounter(counterStore, e).store
    /\ visit' = [visit EXCEPT !.op = "initializeCounter", !.returned = 0,
                              !.flag = FALSE, !.turn = 1 - @,
                              !.failed = @ \/ initializeCounter(counterStore, e).threw]
    /\ UNCHANGED <<sessionStore, pageCounter, counterFrame>>
    /\ NoRender

\* The tab is closed and the page opened again: sessionStorage starts empty,
\* localStorage is as it was, App is constructed and its effect starts
\* updateVisitorCounter
OpenNewSession ==
    /\ visit.op # "openNewSession"
    /\ sessionStore' = NoItem
    /\ visit' = [NoVisit EXCEPT !.op = "openNewSession", !.turn = 1 - visit.turn]
    /\ visitCount' = 0
    /\ counterModule' = "pending"
    /\ effectCount' = 0
    /\ UNCHANGED <<counterStore, visitStore, counterFrame>>
    /\ NoRender

\* The page is loaded again in its tab: sessionStorage keeps the session id
ReloadPage ==
    /\ visit.op # "reloadPage"
    /\ visit' = [visit EXCEPT !.op = "reloadPage", !.returned = 0, !.flag = FALSE,
                              !.turn = 1 - @]
    /\ visitCount' = 0
    /\ counterModule' = "pending"
    /\ effectCount' = 0
    /\ UNCHANGED <<counterStore, sessionStore, visitStore, counterFrame>>
    /\ NoRender

\* ============================================================ zoom and fetch
zoomFrame == <<toolbarVars, drawVars, measureVars, layerStates, qStatus, qBounds,
               attempt, results, allFailed, selectedFeatures, showFeaturePopup,
               qRejected, loadVars, mounted, applied, overlap, counterVars, filterVars,
               panelVars>>

\* The user zooms the map: 'zoomend' runs handleZoomChange.  While a zoom
\* animation runs Leaflet takes no other zoom.
ZoomTo(z) ==
    /\ mounted
    /\ zoomTarget = NoZoom
    /\ z # zoom
    /\ zoom' = z
    /\ layerWhere' = handleZoomChange(layerWhere, layerStates, z)
    /\ UNCHANGED <<zoomTarget, fetchPlan, zoomFrame, refVars>>

\* The zoom animation of a fitBounds ends: the map is at the new zoom and
\* 'zoomend' runs handleZoomChange
ZoomEnd ==
    /\ mounted
    /\ zoomTarget # NoZoom
    /\ zoom' = zoomTarget
    /\ zoomTarget' = NoZoom
    /\ layerWhere' = handleZoomChange(layerWhere, layerStates, zoomTarget)
    /\ UNCHANGED <<fetchPlan, zoomFrame, refVars>>

\* ================================================ the filter tool and the popups
\* the layer.query() requests of the filter tool that await their answer together
MaxFilterRequests == 1
\* additionalQueries = [2000, 4000, 6000]: the offsets getFieldValues asks for when
\* a full page held few distinct values
AdditionalQueries == 3

\* A field every layer offers (getLayerFields) and a value of it
FilterField == "OBJECTID"
\* A field of the features that getFieldValues takes for the one asked for when
\* the first feature has not got that one ('objectid'.includes('id'))
SimilarField == "ID"
FilterFields == {FilterField, SimilarField}
FilterValue == "1"
FilterValueLists == {<<>>, <<FilterValue>>}
\* What the service answers to the query of executeFilter
FilterAnswers == {<<>>, <<RingsBefore, PolyNoRings, NoGeometry>>}

\* What the handlers of the filter tool and of the popups leave alone
filterFrame == <<activeTab, activeTool, drawVars, measureVars, layerStates, qStatus,
                 qBounds, attempt, results, allFailed, qRejected, loadVars, mounted,
                 applied, overlap, counterVars, fetchPlan, panelVars>>

Without(reqs, i) == [k \in 1..(Len(reqs) - 1) |-> IF k < i THEN reqs[k] ELSE reqs[k + 1]]
Cached(l) == {c \in fieldValueCache : c.layer = l}
ValuesOf(seq) == {seq[k] : k \in 1..Len(seq)}

\* The two close buttons of the filter popup: onClick={() => setShowFilterPopup(false)}
CloseFilterPopup ==
    /\ showFilterPopup
    /\ showFilterPopup' = FALSE
    /\ UNCHANGED <<filterFrame, message, selectedFeatures, showFeaturePopup, mapZoom,
                   filterMode, filterForm, filterNet>>
    /\ Render(FALSE, FALSE)

\* "1. Select Layer": the options are the layers whose layerStates flag is set.
\* getActualLayerFields sends a request for the fields of the layer.
SelectFilterLayer(l) ==
    /\ showFilterPopup
    /\ l # selectedFilterLayer
    /\ l # "" => (IsOn(layerStates, l) /\ Len(filterRequests) < MaxFilterRequests)
    /\ selectedFilterLayer' = l
    /\ selectedFilterField' = ""
    /\ filterValues' = <<>>
    /\ selectedFilterValue' = ""
    /\ filterRequests' = IF l = "" THEN filterRequests
                         ELSE Append(filterRequests, [kind |-> "fields", layer |-> l])
    /\ UNCHANGED <<filterFrame, message, selectedFeatures, showFeaturePopup, mapZoom,
                   filterMode, showFilterPopup, isLoadingValues, fieldValueCache>>
    /\ Render(FALSE, TRUE)

\* The callback of getActualLayerFields, with the fields or with []:
\* setFilterFields(prev => ({ ...prev, [layerName]: fields }))
FieldsAnswer(i) ==
    /\ i \in 1..Len(filterRequests)
    /\ filterRequests[i].kind = "fields"
    /\ filterRequests' = Without(filterRequests, i)
    /\ UNCHANGED <<filterFrame, message, selectedFeatures, showFeaturePopup, mapZoom,
                   filterMode, showFilterPopup, filterForm, isLoadingValues,
                   fieldValueCache>>
    /\ Render(FALSE, TRUE)

\* "2. Select Field", and getFieldValues(selectedFilterLayer, fieldName) for a
\* field that is not "": the cached values, or a request for a page of features
SelectFilterField(f) ==
    /\ showFilterPopup
    /\ selectedFilterLayer # ""
    /\ f # selectedFilterField
    /\ selectedFilterField' = f
    /\ selectedFilterValue' = ""
    /\ IF f = ""
       THEN /\ filterValues' = <<>>
            /\ UNCHANGED <<message, isLoadingValues, filterRequests>>
       ELSE IF Cached(selectedFilterLayer) # {}
       THEN /\ filterValues' = (CHOOSE c \in Cached(selectedFilterLayer) : TRUE).values
            /\ message' = "Loaded " \o ToString(Len(
                               (CHOOSE c \in Cached(selectedFilterLayer) : TRUE).values))
                           \o " cached values for " \o f
            /\ UNCHANGED <<isLoadingValues, filterRequests>>
       ELSE /\ Len(filterRequests) < MaxFilterRequests
            /\ isLoadingValues' = TRUE
            /\ filterValues' = <<>>
            /\ filterRequests' = Append(filterRequests,
                                        [kind |-> "values", layer |-> selectedFilterLayer])
            /\ UNCHANGED message
    /\ UNCHANGED <<filterFrame, selectedFeatures, showFeaturePopup, mapZoom, filterMode,
                   showFilterPopup, selectedFilterLayer, fieldValueCache>>
    /\ Render(FALSE, TRUE)

\* fieldValueCache.current.set(cacheKey, values); setFilterValues(values);
\* setMessage(`Loaded ${values.length} unique values for ${fieldName}`).
\* cacheKey was made of the field asked for; fieldName is the field the values
\* were read from.
StoreValues(l, fieldName, values) ==
    /\ fieldValueCache' = (fieldValueCache \ Cached(l)) \cup {[layer |-> l, values |-> values]}
    /\ filterValues' = values
    /\ message' = "Loaded " \o ToString(Len(values)) \o " unique values for "
                   \o fieldName

\* The callback of the request of getFieldValues.  fieldName: the field asked
\* for when the first feature has it, a similar field of that feature when it
\* has not (fieldName = similarField); outcome "no field" when it has neither.
ValuesAnswer(i, outcome, fieldName, values) ==
    /\ i \in 1..Len(filterRequests)
    /\ filterRequests[i].kind = "values"
    /\ fieldName # FilterField => outcome \in {"few values", "values"}
    /\ isLoadingValues' = FALSE
    /\ CASE outcome = "error" ->
                /\ filterRequests' = Without(filterRequests, i)
                /\ UNCHANGED <<message, filterValues, fieldValueCache>>
         [] outcome = "no features" ->
                /\ filterRequests' = Without(filterRequests, i)
                /\ message' = "No features found in " \o filterRequests[i].layer
                               \o " layer"
                /\ UNCHANGED <<filterValues, fieldValueCache>>
         [] outcome = "no field" ->
                /\ filterRequests' = Without(filterRequests, i)
                /\ message' = "Field '" \o FilterField \o "' not found. Available fields: ..."
                /\ UNCHANGED <<filterValues, fieldValueCache>>
         [] outcome = "few values" ->
                \* uniqueValues.length <= 5 && results.features.length >= 1000
                /\ filterRequests' =
                       [filterRequests EXCEPT ![i] =
                           [kind |-> "more", layer |-> filterRequests[i].layer,
                            fieldName |-> fieldName, left |-> AdditionalQueries]]
                /\ UNCHANGED <<message, filterValues, fieldValueCache>>
         [] outcome = "values" ->
                /\ filterRequests' = Without(filterRequests, i)
                /\ StoreValues(filterRequests[i].layer, fieldName, values)
    /\ UNCHANGED <<filterFrame, selectedFeatures, showFeaturePopup, mapZoom, filterMode,
                   showFilterPopup, selectedFilterLayer, selectedFilterField,
                   selectedFilterValue>>
    /\ Render(FALSE, outcome = "values")

\* The callback of one of the additional requests: the last of them stores the
\* values; after one that failed completedQueries never gets there
MoreValuesAnswer(i, ok, values) ==
    /\ i \in 1..Len(filterRequests)
    /\ filterRequests[i].kind = "more"
    /\ IF ~ok
       THEN /\ filterRequests' = Without(filterRequests, i)
            /\ UNCHANGED <<message, filterValues, fieldValueCache>>
       ELSE IF filterRequests[i].left > 1
       THEN /\ filterRequests' = [filterRequests EXCEPT ![i].left = @ - 1]
            /\ UNCHANGED <<message, filterValues, fieldValueCache>>
       ELSE /\ filterRequests' = Without(filterRequests, i)
            /\ StoreValues(filterRequests[i].layer, filterRequests[i].fieldName, values)
    /\ UNCHANGED <<filterFrame, selectedFeatures, showFeaturePopup, mapZoom, filterMode,
                   showFilterPopup, selectedFilterLayer, selectedFilterField,
                   selectedFilterValue, isLoadingValues>>
    /\ Render(FALSE, ok /\ filterRequests[i].left = 1)

\* "3. Select Value": disabled={isLoadingValues}, the options are filterValues
SelectFilterValue(v) ==
    /\ showFilterPopup
    /\ selectedFilterField # ""
    /\ ~isLoadingValues
    /\ v # selectedFilterValue
    /\ v = "" \/ v \in ValuesOf(filterValues)
    /\ selectedFilterValue' = v
    /\ UNCHANGED <<filterFrame, message, selectedFeatures, showFeaturePopup, mapZoom,
                   filterMode, showFilterPopup, selectedFilterLayer, selectedFilterField,
                   filterValues, filterNet>>
    /\ Render(FALSE, FALSE)

\* executeFilter up to its request.  layerRefs.current holds the five layers
\* whenever a handler runs, so a selected layer is always available.
executeFilter ==
    IF selectedFilterField = "" \/ selectedFilterValue = ""
    THEN /\ message' = "Please select a field and value to filter on"
         /\ UNCHANGED filterRequests
    ELSE IF selectedFilterLayer = ""
    THEN /\ message' = "Please select a layer to filter"
         /\ UNCHANGED filterRequests
    ELSE /\ message' = "Executing filter..."
         /\ filterRequests' = Append(filterRequests,
                                     [kind |-> "filter", layer |-> selectedFilterLayer])

\* "Apply Filter":
\* disabled={!selectedFilterLayer || !selectedFilterField || !selectedFilterValue}
ExecuteFilter ==
    /\ showFilterPopup
    /\ selectedFilterLayer # "" /\ selectedFilterField # "" /\ selectedFilterValue # ""
    /\ Len(filterRequests) < MaxFilterRequests
    /\ executeFilter
    /\ UNCHANGED <<filterFrame, selectedFeatures, showFeaturePopup, mapZoom, filterMode,
                   showFilterPopup, filterForm, isLoadingValues, fieldValueCache>>
    /\ Render(FALSE, FALSE)

\* The callback of executeFilter's request
FilterAnswer(i, error, features) ==
    /\ i \in 1..Len(filterRequests)
    /\ filterRequests[i].kind = "filter"
    /\ filterRequests' = Without(filterRequests, i)
    /\ IF error
       THEN /\ message' = "Error executing filter"
            /\ UNCHANGED <<selectedFeatures, showFeaturePopup, showFilterPopup>>
       ELSE IF Len(features) > 0
       THEN /\ message' = "Filter found " \o ToString(Len(features)) \o " features in "
                           \o filterRequests[i].layer
            /\ selectedFeatures' = TagAll(features, filterRequests[i].layer)
            /\ showFeaturePopup' = TRUE
            /\ showFilterPopup' = FALSE
       ELSE /\ message' = "No features found matching the filter criteria"
            /\ UNCHANGED <<selectedFeatures, showFeaturePopup, showFilterPopup>>
    /\ UNCHANGED <<filterFrame, mapZoom, filterMode, filterForm, isLoadingValues,
                   fieldValueCache>>
    \* setFilterResults(features) is handed a new array
    /\ Render(FALSE, ~error)

\* A click on a feature of a layer on the map.  The layer's click handler calls
\* the handleFeatureClick it was created with, if it was created with one (in
\* filter mode), and setSelectedFeature(featureWithLayer) otherwise.
HandleFeatureClick(l) ==
    /\ mounted /\ filterMode
    /\ IsOn(layerStates, l) /\ layerWhere[l] = "1=1"
    /\ selectedFilterField' = ""
    /\ filterValues' = <<>>
    /\ selectedFilterValue' = ""
    /\ message' = "Selected feature from " \o l \o ". Choose a field to filter on."
    /\ UNCHANGED <<filterFrame, selectedFeatures, showFeaturePopup, mapZoom, filterMode,
                   showFilterPopup, selectedFilterLayer, filterNet>>
    /\ Render(FALSE, TRUE)

SelectFeature(l) ==
    /\ mounted /\ ~filterMode
    /\ IsOn(layerStates, l) /\ layerWhere[l] = "1=1"
    /\ selectedFeature' = l
    /\ UNCHANGED <<panelFrame, isExpanded, basemap>>
    \* featureWithLayer is a new object
    /\ Render(FALSE, TRUE)

\* CustomPopup's onClose={() => setSelectedFeature(null)}
CloseCustomPopup ==
    /\ selectedFeature # ""
    /\ selectedFeature' = ""
    /\ UNCHANGED <<panelFrame, isExpanded, basemap>>
    /\ Render(FALSE, FALSE)

\* FeatureSummaryPopup's onClose
ClosePopup ==
    /\ showFeaturePopup
    /\ selectedFeatures' = <<>>
    /\ showFeaturePopup' = FALSE
    /\ UNCHANGED <<filterFrame, message, mapZoom, filterVars>>
    /\ Render(FALSE, TRUE)

\* The close button of the message center: onClick={() => setMessage('')}
CloseMessage ==
    /\ message # ""
    /\ message' = ""
    /\ UNCHANGED <<filterFrame, selectedFeatures, showFeaturePopup, mapZoom, filterVars>>
    /\ Render(FALSE, FALSE)

\* exportToPDF: window.mapRef is set nowhere, so after 'Generating PDF report...'
\* the function leaves with its second message
ExportToPDF ==
    /\ showFeaturePopup
    /\ message' = IF Len(selectedFeatures) = 0 THEN message
                  ELSE "Map not available for screenshot"
    /\ UNCHANGED <<filterFrame, selectedFeatures, showFeaturePopup, mapZoom, filterVars>>
    /\ Render(FALSE, FALSE)

RECURSIVE flat(_, _)
\* array.flat(), from element k on: the elements of its elements, one level
flat(array, k) == IF k > Len(array) THEN <<>> ELSE array[k] \o flat(array, k + 1)

\* The bounds zoomToAndHighlightFeature builds are those of at least one
\* position.  Of a MultiPolygon it takes coordinates.flat()[0], the first ring
\* of the first polygon that has one.
HasBounds(f) ==
    /\ f.ckind = "array"
    /\ CASE f.gtype = "Point" -> Len(f.coords) >= 2
         [] f.gtype = "LineString" -> Len(f.coords) > 0
         [] f.gtype = "MultiLineString" -> Len(flat(f.coords, 1)) > 0
         [] f.gtype = "Polygon" -> Len(f.coords) > 0 /\ Len(f.coords[1]) > 0
         [] f.gtype = "MultiPolygon" ->
                Len(flat(f.coords, 1)) > 0 /\ Len(flat(f.coords, 1)[1]) > 0
         [] OTHER -> FALSE

\* ValidationUtils.validateFeature
validateFeature(f) == f.gtype # "None" /\ f.ckind # "missing"

\* getFeatureSummary(feature, layerName).name.  The features of the model carry
\* none of the name properties (BRIDGE_NAME, ROUTE, CONDUIT_NAME, STREET_NAME,
\* ROUTE_TYPE, ODOT_DISTRICT), so the name is the one the layer falls back to.
getFeatureSummary(f, layerName) ==
    [name |-> IF ~validateFeature(f) THEN "Invalid Feature"
              ELSE CASE layerName = "bridges" -> "Bridge"
                     [] layerName = "conduits" -> "Conduit"
                     [] layerName = "roads" -> "Road"
                     [] layerName = "boundaries" -> "District"
                     [] OTHER -> "Feature"]

\* zoomToAndHighlightFeature: "none" (no geometry, or a type it has no branch
\* for), "error" (its catch), "zoomed"
ZoomOutcome(f) ==
    IF f.gtype = "None" \/ f.gtype \notin ({"Point"} \cup LineTypes \cup PolygonTypes)
    THEN "none"
    ELSE IF HasBounds(f) THEN "zoomed" ELSE "error"

\* A click on a feature in the list of the popup.  map.fitBounds brings the map
\* to zoom z, unless a zoom animation is running.  Without an animation of its
\* own, 'zoomend' runs handleZoomChange inside fitBounds, before App renders;
\* with one, the zoom changes and 'zoomend' runs when the animation ends (ZoomEnd).
ZoomToFeature(i, z, animated) ==
    /\ mounted /\ showFeaturePopup
    /\ i \in 1..Len(selectedFeatures)
    /\ LET f == selectedFeatures[i]
           outcome == ZoomOutcome(f)
           zooms == outcome = "zoomed" /\ z # zoom /\ zoomTarget = NoZoom
       IN  /\ zooms \/ (z = zoom /\ ~animated)
           /\ message' = CASE outcome = "none" -> message
                           [] outcome = "error" -> "Error zooming to feature"
                           [] OTHER -> "Zoomed to " \o getFeatureSummary(f, f.layerName).name
                                           \o " (" \o f.layerName \o ")"
           /\ zoom' = IF zooms /\ ~animated THEN z ELSE zoom
           /\ zoomTarget' = IF zooms /\ animated THEN z ELSE zoomTarget
           /\ UNCHANGED <<filterFrame, selectedFeatures, showFeaturePopup, filterVars>>
           /\ RenderFrom(IF zooms /\ ~animated
                         THEN handleZoomChange(layerWhere, layerStates, z)
                         ELSE layerWhere,
                         FALSE, FALSE)

\* ============================================================ specifications
Init ==
    /\ activeTab = "layers"
    /\ activeTool = "none"
    /\ message = ""
    /\ isDrawing = FALSE
    /\ isCurrentlyDrawing = FALSE
    /\ wasDraggingEnabled = TRUE
    /\ startPoint = NoPoint
    /\ rect = "null"
    /\ rectCorner = NoPoint
    /\ orphanRects = FALSE
    /\ removeTimers = 0
    /\ mapDragging = TRUE
    /\ queryCalls = <<>>
    /\ lastUp = NoUp
    /\ closureLayers = [l \in LayerNames |-> l = "bridges"]
    /\ isMeasuring = FALSE
    /\ measureMode = "line"
    /\ isMeasuringRef = FALSE
    /\ isDoubleClickingRef = FALSE
    /\ measurePoints = <<>>
    /\ sessionMarkers = 0
    /\ oldMarkers = FALSE
    /\ lineOn = FALSE
    /\ polyOn = FALSE
    /\ dblTimers = 0
    /\ gesture = NoGesture
    /\ gestureAppends = 0
    /\ clearedSinceStart = FALSE
    /\ reportedTotals = NoTotals
    /\ layerStates = [l \in LayerNames |-> l = "bridges"]
    /\ qStatus = "idle"
    /\ qBounds = Box
    /\ attempt = [l \in QueryLayers |-> "none"]
    /\ results = [l \in QueryLayers |-> <<>>]
    /\ allFailed = [l \in QueryLayers |-> TRUE]
    /\ selectedFeatures = <<>>
    /\ showFeaturePopup = FALSE
    /\ qRejected = FALSE
    /\ queryCache = {}
    /\ isLoadingFeatures = FALSE
    /\ loadingProgress = 0
    /\ featureCount = 0
    /\ displayedFeatures = <<>>
    /\ hasMoreFeatures = FALSE
    /\ currentPage = 1
    /\ isLoadingMore = FALSE
    /\ mounted = TRUE
    /\ applied = [fn |-> "none"]
    /\ overlap = <<>>
    /\ counterStore = NoCount
    /\ sessionStore = NoItem
    /\ visit = NoVisit
    /\ visitStore = NoCount
    /\ visitCount = 0
    /\ counterModule = "pending"
    /\ effectCount = 0
    /\ zoom = InitialZoom
    /\ layerWhere = CreateLayers(InitialZoom)
    /\ fetchPlan = NoPlan
    /\ filterMode = FALSE
    /\ showFilterPopup = FALSE
    /\ selectedFilterLayer = ""
    /\ selectedFilterField = ""
    /\ selectedFilterValue = ""
    /\ filterValues = <<>>
    /\ isLoadingValues = FALSE
    /\ fieldValueCache = {}
    /\ filterRequests = <<>>
    /\ isExpanded = TRUE
    /\ basemap = "osm"
    /\ selectedFeature = ""
    /\ drawToolRef = FALSE
    /\ measureToolRef = FALSE
    /\ drawDisabled = FALSE
    /\ measureDisabled = FALSE
    /\ zoomTarget = NoZoom

ToolbarNext ==
    \/ \E t \in WorkTabs : SetActiveTab(t)
    \/ TbStartDrawing
    \/ \E mode \in Modes : TbStartMeasuring(mode)
    \/ TbStartFilter
    \/ TbClearAll

\* The draw tool with the buttons of the tools tab that start or stop a tool
DrawNext ==
    \/ \E t \in WorkTabs : SetActiveTab(t)
    \/ TbStartDrawing
    \/ TbStartMeasuring("line")
    \/ TbClearAll
    \/ \E p \in Pix : MouseDown(p)
    \/ \E p \in Pix : MouseMove(p)
    \/ \E p \in Pix : MouseUp(p)
    \/ RemoveTimerFires

MeasureNext ==
    \/ ToolbarNext
    \/ \E p \in ClickPts : MapClick(p)
    \/ \E p \in ClickPts : DblGestureClick1(p)
    \/ DblGestureClick2
    \/ DblGestureDblClick
    \/ DblTimerFires

FetchPayloads == Payloads \cup {<<>>}

QueryNext ==
    \/ \E l \in LayerNames, checked \in BOOLEAN : ToggleLayer(l, checked)
    \/ \E b \in Boxes : QueryFeaturesInBounds(b)
    \/ \E l \in QueryLayers : NativeError(l)
    \/ \E l \in QueryLayers : NativeEmpty(l)
    \/ \E l \in QueryLayers, payload \in Payloads : NativeFeatures(l, payload)
    \/ \E l \in QueryLayers : FetchFails(l)
    \/ \E l \in QueryLayers, payload \in FetchPayloads : FetchSucceeds(l, payload)
    \/ \E l \in QueryLayers : FallbackFails(l)
    \/ \E l \in QueryLayers, payload \in FetchPayloads : FallbackSucceeds(l, payload)
    \/ Deliver

SpecDraw == Init /\ [][DrawNext]_vars
SpecMeasure == Init /\ [][MeasureNext]_vars
SpecQuery == Init /\ [][QueryNext]_vars

\* The toolbar and the measure tool while App is mounted, App's unmount, and
\* the guard timers that are still pending then (nothing clears them)
UnmountNext ==
    \/ mounted /\ ToolbarNext
    \/ mounted /\ \E p \in ClickPts : MapClick(p)
    \/ mounted /\ \E p \in ClickPts : DblGestureClick1(p)
    \/ mounted /\ DblGestureClick2
    \/ mounted /\ DblGestureDblClick
    \/ DblTimerFires
    \/ AppUnmount
    \/ UpdateVisitorCounterImport(FALSE, {})
    \/ UpdateVisitorCounterCall({})
    \/ UpdateVisitorCounterShow

SpecUnmount == Init /\ [][UnmountNext]_vars

\* One function is applied once, to any argument of the grid
NotApplied == applied.fn = "none"

HelpersNext ==
    \/ NotApplied /\ \E points \in VertexLists : ApplyCalculateArea(points)
    \/ NotApplied /\ \E pt \in TestPoints, b \in Rects : ApplyPointInRectangle(pt, b)
    \/ NotApplied /\ \E p1, p2, p3, p4 \in Positions :
                         ApplyLineSegmentsIntersect(p1, p2, p3, p4)
    \/ NotApplied /\ \E line \in Polylines, b \in Rects :
                         ApplyLineIntersectsRectangle(line, b)
    \/ NotApplied /\ \E ring \in Rings, b \in Rects :
                         ApplyPolygonIntersectsRectangle(ring, b)
    \/ NotApplied /\ \E path \in {"primary", "fallback"}, payload \in FilterPayloads,
                         b \in Rects \cup {Box} :
                         ApplyClientFilter(path, payload, b)

SpecHelpers == Init /\ [][HelpersNext]_vars

\* Draw-Select queries one after the other, the services answering with points
RepeatPayloads == { <<PtIn, PtEdge, PtOut>> }
RepeatNext ==
    \/ \E l \in LayerNames, checked \in BOOLEAN : ToggleLayer(l, checked)
    \/ \E b \in Boxes : QueryFeaturesInBounds(b)
    \/ \E b \in Boxes : QueryAgain(b)
    \/ \E l \in QueryLayers : NativeError(l)
    \/ \E l \in QueryLayers : NativeEmpty(l)
    \/ \E l \in QueryLayers, payload \in RepeatPayloads : NativeFeatures(l, payload)
    \/ \E l \in QueryLayers : FetchFails(l)
    \/ \E l \in QueryLayers, payload \in RepeatPayloads : FetchSucceeds(l, payload)
    \/ \E l \in QueryLayers : FallbackFails(l)
    \/ \E l \in QueryLayers, payload \in RepeatPayloads : FallbackSucceeds(l, payload)
    \/ Deliver
SpecRepeat == Init /\ [][RepeatNext]_vars

\* Draw-Select queries issued while earlier ones are in flight
OverlapAnswers ==
    UNION {FlatAnswers(1, VisibleLayers([l \in LayerNames |-> l = "bridges"]), b) : b \in ViewBoxes}
OverlapNext ==
    \/ \E b \in ViewBoxes : IssueQuery(b)
    \/ \E i \in 1..MaxQueries, value \in OverlapAnswers : SettleQuery(i, value)
SpecOverlap == Init /\ [][OverlapNext]_vars

\* The visitor counter over the sessions of one browser: App's effect and the
\* calls of other importers of the module
WrittenCounts == {0, 7}
CounterNext ==
    \/ \E importFails \in BOOLEAN, e \in SUBSET CounterCalls :
          UpdateVisitorCounterImport(importFails, e)
    \/ \E e \in SUBSET (SessionCalls \cup CounterCalls) : UpdateVisitorCounterCall(e)
    \/ UpdateVisitorCounterShow
    \/ \E e \in SUBSET (SessionCalls \cup CounterCalls) : HandleVisitorCount(e)
    \/ \E e \in SUBSET CounterCalls : IncrementCounter(e)
    \/ \E e \in SUBSET (RemoveCalls \cup CounterCalls) : ResetCounter(e)
    \/ \E e \in SUBSET SessionCalls : IsNewSession(e)
    \/ \E count \in WrittenCounts, e \in SUBSET {"localStorage.setItem"} :
          WriteCounter(count, e)
    \/ \E e \in SUBSET CounterCalls : InitializeCounter(e)
    \/ OpenNewSession
    \/ ReloadPage
SpecCounter == Init /\ [][CounterNext]_vars

\* Two of the layer checkboxes of the layers tab, the zoom control and the
\* fetches of a Draw-Select query
ToggledLayers == {"bridges", "roads"}
ZoomNext ==
    \/ \E l \in ToggledLayers, checked \in BOOLEAN : ToggleLayer(l, checked)
    \/ \E z \in Zooms : ZoomTo(z)
    \/ \E b \in Boxes : QueryFeaturesInBounds(b)
    \/ \E l \in QueryLayers : NativeError(l)
    \/ \E l \in QueryLayers : NativeEmpty(l)
SpecZoom == Init /\ [][ZoomNext]_vars

\* The draw tool with two of the layer checkboxes of the layers tab
DrawLayersNext ==
    \/ \E t \in WorkTabs : SetActiveTab(t)
    \/ \E l \in ToggledLayers, checked \in BOOLEAN : ToggleLayer(l, checked)
    \/ TbStartDrawing
    \/ \E p \in Pix : MouseDown(p)
    \/ \E p \in Pix : MouseMove(p)
    \/ \E p \in Pix : MouseUp(p)
    \/ RemoveTimerFires
SpecDrawLayers == Init /\ [][DrawLayersNext]_vars

\* The toolbar with its three tabs, two of the layer checkboxes, two of the
\* basemap radios, the zoom control and the popup of a feature clicked on the map
PanelLayers == {"bridges", "lighting"}
PanelBasemaps == {"osm", "carto-dark"}
PanelZooms == {InitialZoom - MaxZoomOut, InitialZoom}
PanelsNext ==
    \/ ToggleExpanded
    \/ \E t \in Tabs : SetActiveTab(t)
    \/ \E b \in PanelBasemaps : SetBasemap(b)
    \/ \E l \in PanelLayers, checked \in BOOLEAN : ToggleLayer(l, checked)
    \/ ToolbarNext
    \/ \E l \in PanelLayers : SelectFeature(l)
    \/ \E z \in PanelZooms : ZoomTo(z)
    \/ CloseCustomPopup
SpecPanels == Init /\ [][PanelsNext]_vars

\* The filter tool with the popups, a layer checkbox and the zoom
FilterToggled == {"roads"}
\* the layer picked in the filter popup
FilterLayers == {"bridges"}
FilterZooms == {InitialZoom - MaxZoomOut, InitialZoom}
FilterOutcomes == {"error", "no features", "no field", "few values", "values"}
FilterNext ==
    \/ \E t \in WorkTabs : SetActiveTab(t)
    \/ TbStartFilter
    \/ TbClearAll
    \/ \E l \in FilterToggled, checked \in BOOLEAN : ToggleLayer(l, checked)
    \/ \E z \in FilterZooms : ZoomTo(z)
    \/ CloseFilterPopup
    \/ \E l \in FilterLayers \cup {""} : SelectFilterLayer(l)
    \/ \E i \in 1..MaxFilterRequests : FieldsAnswer(i)
    \/ \E f \in {"", FilterField} : SelectFilterField(f)
    \/ \E i \in 1..MaxFilterRequests, outcome \in FilterOutcomes,
          fieldName \in FilterFields, values \in FilterValueLists :
              ValuesAnswer(i, outcome, fieldName, values)
    \/ \E i \in 1..MaxFilterRequests, ok \in BOOLEAN, values \in FilterValueLists :
          MoreValuesAnswer(i, ok, values)
    \/ \E v \in {"", FilterValue} : SelectFilterValue(v)
    \/ ExecuteFilter
    \/ \E i \in 1..MaxFilterRequests, error \in BOOLEAN, features \in FilterAnswers :
          FilterAnswer(i, error, features)
    \/ \E l \in LayerNames : HandleFeatureClick(l)
    \/ ClosePopup
    \/ CloseMessage
    \/ ExportToPDF
    \/ \E i \in 1..3, z \in FilterZooms, animated \in BOOLEAN :
          ZoomToFeature(i, z, animated)
    \/ ZoomEnd
SpecFilter == Init /\ [][FilterNext]_vars

\* Every fetch is bounded by its AbortSignal.timeout, and a settled promise's
\* continuation runs; nothing bounds the native query's callback.
FetchSettles == \E l \in QueryLayers :
                    FetchFails(l) \/ \E payload \in FetchPayloads : FetchSucceeds(l, payload)
FallbackSettles == \E l \in QueryLayers :
                    FallbackFails(l) \/ \E payload \in FetchPayloads : FallbackSucceeds(l, payload)
FairSpecQuery ==
    /\ SpecQuery
    /\ WF_vars(FetchSettles)
    /\ WF_vars(FallbackSettles)
    /\ WF_vars(Deliver)

\* ===================================================================== claims
SeqToSet(sq) == {sq[i] : i \in 1..Len(sq)}
RECURSIVE OfLayer(_, _)
\* The features of a delivered list that carry layer name l, in order
OfLayer(fs, l) ==
    IF fs = <<>> THEN <<>>
    ELSE (IF Head(fs).layerName = l THEN <<Head(fs)>> ELSE <<>>) \o OfLayer(Tail(fs), l)

Queried(l) == attempt[l] # "none"

\* C1: when a bounding-box query has delivered, it was not rejected; a layer whose
\* every network attempt failed has no feature in the delivered set; every other
\* queried layer has exactly its own features there, under its own layer name; and
\* nothing else is delivered.
C1_PartialFailure ==
    qStatus = "delivered" =>
        /\ ~qRejected
        /\ showFeaturePopup
        /\ \A l \in QueryLayers :
              /\ (Queried(l) /\ allFailed[l]) => OfLayer(selectedFeatures, l) = <<>>
              /\ (Queried(l) /\ ~allFailed[l]) => OfLayer(selectedFeatures, l) = results[l]
              /\ \A i \in 1..Len(results[l]) : results[l][i].layerName = l
        /\ \A i \in 1..Len(selectedFeatures) :
              \E l \in QueryLayers : Queried(l) /\ selectedFeatures[i].layerName = l

\* C1 witness: one layer failed its native query, its spatial fetch and its
\* fallback fetch, another layer answered with features, and the delivered set is
\* that layer's features.
C1_Witness ==
    /\ qStatus = "delivered"
    /\ \E a, b \in QueryLayers :
          /\ a # b /\ Queried(a) /\ Queried(b)
          /\ allFailed[a] /\ ~allFailed[b]
          /\ results[b] # <<>>
          /\ selectedFeatures = results[b]

\* C2: every bounding-box query that was started eventually delivers a feature set.
C2_EveryQueryDelivers == (qStatus = "running") ~> (qStatus = "delivered")

\* The client-side geometry test of a feature against the box: inclusion for a
\* Point, lineIntersectsRectangle for a line, a vertex in the box or
\* polygonIntersectsRectangle on the outer ring for a polygon.
PassesGeometryTest(f, b) ==
    /\ f.gtype # "None" /\ f.ckind = "array"
    /\ CASE f.gtype = "Point" -> Len(f.coords) >= 2 /\ pointInRectangle(f.coords, b)
         [] f.gtype \in LineTypes ->
                \E k \in 1..Len(LinesOf(f)) : lineIntersectsRectangle(LinesOf(f)[k], b)
         [] f.gtype \in PolygonTypes ->
                \E k \in 1..Len(PolygonsOf(f)) :
                    /\ Len(PolygonsOf(f)[k]) > 0
                    /\ \/ HasPointInBounds(PolygonsOf(f)[k][1], b)
                       \/ polygonIntersectsRectangle(PolygonsOf(f)[k][1], b)
         [] OTHER -> FALSE

\* C3: every feature a bounding-box query delivers passes the client-side
\* geometry test against the drawn box, whichever path produced it.
C3_DeliveredPassGeometryTest ==
    qStatus = "delivered" =>
        \A i \in 1..Len(selectedFeatures) : PassesGeometryTest(selectedFeatures[i], qBounds)

\* C4: whenever no drag is in progress, map panning is enabled (it was enabled
\* before the first pointer-down).
C4_PanningRestored == ~isCurrentlyDrawing => mapDragging

SpanTooSmall(up) == up.width < MinDragPixels \/ up.height < MinDragPixels

\* C5: after a pointer-up whose drag was below the threshold, the tool is still
\* armed (a pointer-down would start a drag).
C5_StillArmedAfterSmallDrag == (lastUp # NoUp /\ SpanTooSmall(lastUp)) => isDrawing

\* C6: a pointer-up that ends a drag below 10 pixels in either axis issues no query
\* and takes the drag's rectangle off the map; a pointer-up that ends a drag of at
\* least 10 pixels in both axes issues exactly one query; and a handler run issues
\* a query only if it is that pointer-up, run while a drag was in progress.
C6_State ==
    /\ (lastUp # NoUp /\ SpanTooSmall(lastUp)) => (queryCalls = <<>> /\ rect # "on")
    /\ (lastUp # NoUp /\ ~SpanTooSmall(lastUp)) => Len(queryCalls) = 1
    /\ queryCalls # <<>> => (lastUp # NoUp /\ ~SpanTooSmall(lastUp))
C6_Step ==
    (drawVars' # drawVars /\ queryCalls' # <<>>) =>
        /\ isCurrentlyDrawing /\ ~isCurrentlyDrawing'
        /\ Len(queryCalls') = 1
        /\ queryCalls'[1].east - queryCalls'[1].west >= MinDragPixels
        /\ queryCalls'[1].north - queryCalls'[1].south >= MinDragPixels
C6_QueryOnlyAfterRealDrag == [](C6_State) /\ [][C6_Step]_vars

\* C6 witness: a drag one pixel short of the threshold on one axis only has ended:
\* no query, the rectangle off the map.
C6_Witness ==
    /\ lastUp # NoUp
    /\ lastUp.width = MinDragPixels - 1 /\ lastUp.height >= MinDragPixels
    /\ queryCalls = <<>> /\ rect = "off"

\* C7: the draw tool being armed or dragging and the measure tool collecting
\* exclude each other.
C7_ToolsExclusive == ~((isDrawing \/ isCurrentlyDrawing) /\ isMeasuringRef)

\* C8: when a double-click gesture (click, click, dblclick) is over, its clicks
\* have appended at most one vertex.
C8_NoSpuriousVertex == gesture = NoGesture => gestureAppends <= 1

TooFewMessages == {"Line measurement requires at least 2 points",
                   "Area measurement requires at least 3 points"}

\* C9: after a double-click with too few vertices has reported its message, the
\* engine is still collecting (a map click would append a vertex).
C9_TooFewStaysCollecting == message \in TooFewMessages => isMeasuringRef

OverlayEmpty == sessionMarkers = 0 /\ ~oldMarkers /\ ~lineOn /\ ~polyOn

\* C10: once clearMeasurements has run, and until startMeasuring runs again, the
\* engine is idle, the vertex list and the overlay are empty, and map clicks are
\* not accepted.
C10_ClearLeavesIdle ==
    clearedSinceStart =>
        /\ ~isMeasuringRef /\ ~isMeasuring
        /\ measurePoints = <<>>
        /\ OverlayEmpty

\* ---------------------------------------------------------------- C12 .. C16
\* The layers the running (or delivered) query started a network attempt for
QueriedLayers == {l \in QueryLayers : Queried(l)}
\* The query that starts in this step repeats the one that has delivered: the
\* same box, the same active layers (no time passes between the two steps)
RepeatsDelivered ==
    /\ qStatus = "delivered" /\ qStatus' = "running"
    /\ qBounds' = qBounds
    /\ {l \in QueryLayers : attempt'[l] # "none"} = QueriedLayers

\* C12: a Draw-Select query that repeats the box and the active layers of the
\* query that has just delivered starts no network attempt for any layer.
C12_RepeatedQueryUsesCache ==
    [][RepeatsDelivered => \A l \in QueryLayers : attempt'[l] # "native"]_vars

\* C14: the step that delivers the result of a query in which every network
\* attempt of some layer failed also writes the display's status message.
C14_FailedLayerWarning ==
    [][(qStatus = "running" /\ qStatus' = "delivered"
            /\ \E l \in QueriedLayers : allFailed[l])
        => message' # message]_vars

\* C16: the layers a query is started for are exactly the layers that are
\* toggled on, lighting included.
C16_ActiveLayersQueried ==
    qStatus \in {"running", "delivered"}
        => QueriedLayers = {l \in LayerNames : IsOn(layerStates, l)}

\* ------------------------------------------------------------------------ C20
\* Clear All with the draw tool active is the step that calls stopDrawing()
StopDrawingStep == activeTool = "draw" /\ activeTool' = "none"

\* C20: stopDrawing() leaves the draw tool idle (not armed, no drag in progress)
\* with no rectangle on the map, whatever state it is called in; and while the
\* tool is idle no step issues a query or puts a rectangle on the map.
C20_Step ==
    /\ StopDrawingStep =>
          /\ ~isDrawing' /\ ~isCurrentlyDrawing'
          /\ rect' # "on" /\ ~orphanRects'
    /\ (~isDrawing /\ ~isDrawing' /\ drawVars' # drawVars) =>
          /\ queryCalls' = <<>>
          /\ rect' = "on" => rect = "on"
          /\ orphanRects' => orphanRects
C20_StopLeavesIdle == [][C20_Step]_vars

\* ------------------------------------------------------------------------ C21
CompleteMessages == {"LINE MEASUREMENT COMPLETE", "AREA MEASUREMENT COMPLETE"}
RunningMessages == {"Line: running distance", "Area: running area"}
StartMeasuringStep ==
    /\ isMeasuringRef'
    /\ \E mode \in Modes : message' = StartMeasuringMessage(mode)
    /\ measurePoints' = <<>>

C21_Step ==
    (message \in CompleteMessages \/ ~isMeasuringRef) =>
        \/ StartMeasuringStep
        \/ /\ ~isMeasuringRef'
           /\ Len(measurePoints') <= Len(measurePoints)
           /\ sessionMarkers' <= sessionMarkers
           /\ message' \in (CompleteMessages \cup RunningMessages) => message' = message
           /\ reportedTotals' \in {reportedTotals, NoTotals}

\* C21: once a double-click has finalized a measurement (and whenever the tool
\* is not collecting), no step appends a vertex, adds a marker or reports
\* another total, and collection is re-enabled only by a step of
\* startMeasuring; the guard timer does not re-enable it.
C21_FinalizedStaysClosed == [][C21_Step]_vars

\* A click was delivered after a finalizing double-click and after its guard
\* timer had fired, and the completed measurement is still what is reported.
C21_Witness ==
    /\ message = "LINE MEASUREMENT COMPLETE"
    /\ gestureAppends = 0
    /\ ~isMeasuringRef /\ ~isDoubleClickingRef /\ dblTimers = 0
    /\ Len(measurePoints) = 2

\* ------------------------------------------------------------------------ C23
\* The distances of the consecutive vertex pairs, added up from the first pair
RECURSIVE SumOfPairs(_)
SumOfPairs(pts) ==
    IF Len(pts) < 2 THEN 0
    ELSE distanceTo(pts[1], pts[2]) + SumOfPairs(Tail(pts))

ShortLists == UNION {[1..n -> ClickPts] : n \in 0..1}

\* C23: in line mode, after a click that leaves n >= 2 vertices the reported
\* total is that of the whole vertex list, and a reported distance is the sum
\* of the distances of the consecutive vertex pairs in click order times the
\* unit factors; with fewer than 2 vertices calculateDistance is 0 and no
\* distance is reported.
C23_RunningDistance ==
    /\ (reportedTotals.kind = "distance") =>
           /\ Len(reportedTotals.points) >= 2
           /\ reportedTotals.distance.miles
                  = SumOfPairs(reportedTotals.points) * MilesPerMetre
           /\ reportedTotals.distance.feet
                  = SumOfPairs(reportedTotals.points) * FeetPerMetre
    /\ (isMeasuringRef /\ measureMode = "line" /\ Len(measurePoints) >= 2) =>
           /\ reportedTotals.kind = "distance"
           /\ reportedTotals.points = measurePoints
    /\ (isMeasuringRef /\ measureMode = "line" /\ Len(measurePoints) < 2) =>
           reportedTotals.kind = "none"
    /\ \A pts \in ShortLists : calculateDistance(pts) = [miles |-> 0, feet |-> 0]

\* Three clicks, the third back at the place of the first: the total is twice
\* the distance of the two places, and the direct distance first-to-last is 0.
C23_Witness ==
    /\ reportedTotals.kind = "distance"
    /\ message = "Line: running distance"
    /\ Len(measurePoints) = 3
    /\ measurePoints[1] = measurePoints[3]
    /\ measurePoints[1] # measurePoints[2]
    /\ reportedTotals.distance.miles
           = 2 * distanceTo(measurePoints[1], measurePoints[2]) * MilesPerMetre
    /\ reportedTotals.distance.miles > 0

\* ------------------------------------------------------------------------ C22
MeasureTools == {"measure-line", "measure-area"}
\* A step that runs stopMeasuring() while the tool is collecting: App's unmount
\* cleanup, or clearAll with a measure tool active
StopMeasuringStep ==
    /\ isMeasuringRef
    /\ \/ mounted /\ ~mounted'
       \/ activeTool \in MeasureTools /\ activeTool' = "none"

C22_Step ==
    StopMeasuringStep =>
        /\ ~isMeasuring' /\ ~isMeasuringRef'
        /\ reportedTotals' = NoTotals
        /\ measurePoints' = <<>>
        /\ sessionMarkers' = 0
        /\ ~lineOn' /\ ~polyOn'

\* C22: stopMeasuring() while collecting leaves the tool idle without
\* finalizing, with an empty vertex list and with no vertex marker, label,
\* line or polygon of the session on the measure layer.
C22_StopDiscardsOverlay == [][C22_Step]_vars

\* ------------------------------------------------------------------------ C24
\* The shoelace sum over the closed ring (last vertex joined to the first), in
\* its trapezoid form: the sum of (lng_i - lng_next) * (lat_i + lat_next)
RECURSIVE ShoelaceSum(_, _)
ShoelaceSum(pts, k) ==
    IF k = 0 THEN 0
    ELSE LET nx == IF k = Len(pts) THEN 1 ELSE k + 1
         IN  ShoelaceSum(pts, k - 1)
                 + (pts[k].lng - pts[nx].lng) * (pts[k].lat + pts[nx].lat)

CollinearLatLngs(pts) ==
    \A i, j, k \in 1..Len(pts) :
        (pts[j].lng - pts[i].lng) * (pts[k].lat - pts[i].lat)
            = (pts[j].lat - pts[i].lat) * (pts[k].lng - pts[i].lng)

\* C24: calculateArea is half the absolute value of the shoelace sum over the
\* closed vertex ring times a fixed positive factor per unit (the results are
\* kept in half units); it is 0 for fewer than 3 vertices and for collinear
\* vertices, and never negative.
C24_ShoelaceArea ==
    (applied.fn = "calculateArea") =>
        LET pts == applied.points
            twice == Abs(ShoelaceSum(pts, Len(pts)))
        IN  /\ AcresPerSqDegree > 0 /\ SqMilesPerSqDegree > 0
            /\ applied.result.acres = twice * AcresPerSqDegree
            /\ applied.result.sqMiles = twice * SqMilesPerSqDegree
            /\ (Len(pts) < 3 \/ CollinearLatLngs(pts)) =>
                   applied.result = [acres |-> 0, sqMiles |-> 0]
            /\ applied.result.acres >= 0 /\ applied.result.sqMiles >= 0

\* A triangle listed clockwise: the signed sum is negative, the area is not
C24_Witness ==
    /\ applied.fn = "calculateArea"
    /\ Len(applied.points) = 3
    /\ ~CollinearLatLngs(applied.points)
    /\ ShoelaceLoop(applied.points, 3) < 0
    /\ applied.result.acres > 0

\* Three collinear vertices at three different places: the area is 0
C24_WitnessCollinear ==
    /\ applied.fn = "calculateArea"
    /\ Len(applied.points) = 3
    /\ CollinearLatLngs(applied.points)
    /\ Cardinality({applied.points[i] : i \in 1..3}) = 3
    /\ applied.result.acres = 0

\* ------------------------------------------------------------------------ C28
\* Twice the signed area of the triangle a, b, c
Orient(a, b, c) == (b[1] - a[1]) * (c[2] - a[2]) - (b[2] - a[2]) * (c[1] - a[1])
Between(lo, x, hi) == (lo <= x /\ x <= hi) \/ (hi <= x /\ x <= lo)
\* c is a point of the segment from a to b
OnSegment(a, b, c) ==
    Orient(a, b, c) = 0 /\ Between(a[1], c[1], b[1]) /\ Between(a[2], c[2], b[2])
\* The endpoints of each segment are strictly on opposite sides of the other
ProperlyCross(p1, p2, p3, p4) ==
    /\ Orient(p3, p4, p1) * Orient(p3, p4, p2) < 0
    /\ Orient(p1, p2, p3) * Orient(p1, p2, p4) < 0
SharePoint(p1, p2, p3, p4) ==
    \/ ProperlyCross(p1, p2, p3, p4)
    \/ OnSegment(p1, p2, p3) \/ OnSegment(p1, p2, p4)
    \/ OnSegment(p3, p4, p1) \/ OnSegment(p3, p4, p2)
AllCollinear(p1, p2, p3, p4) ==
    /\ Orient(p1, p2, p3) = 0 /\ Orient(p1, p2, p4) = 0
    /\ Orient(p1, p3, p4) = 0 /\ Orient(p2, p3, p4) = 0

\* C28: lineSegmentsIntersect is true for segments that properly cross, false
\* for segments that share no point, and false when the four endpoints are
\* collinear, overlapping or not.
C28_SegmentsIntersect ==
    (applied.fn = "lineSegmentsIntersect") =>
        LET p1 == applied.p1  p2 == applied.p2  p3 == applied.p3  p4 == applied.p4
        IN  /\ ProperlyCross(p1, p2, p3, p4) => applied.result
            /\ ~SharePoint(p1, p2, p3, p4) => ~applied.result
            /\ AllCollinear(p1, p2, p3, p4) => ~applied.result

C28_Witness ==
    /\ applied.fn = "lineSegmentsIntersect"
    /\ ProperlyCross(applied.p1, applied.p2, applied.p3, applied.p4)
    /\ applied.result

\* Two collinear segments of positive length that overlap: the answer is false
C28_WitnessOverlap ==
    /\ applied.fn = "lineSegmentsIntersect"
    /\ AllCollinear(applied.p1, applied.p2, applied.p3, applied.p4)
    /\ applied.p1 # applied.p2 /\ applied.p3 # applied.p4
    /\ OnSegment(applied.p1, applied.p2, applied.p3)
    /\ applied.p3 # applied.p1 /\ applied.p3 # applied.p2
    /\ ~applied.result

\* ------------------------------------------------------------------------ C25
\* pt is in the closed rectangle b
InRect(pt, b) == b.west <= pt[1] /\ pt[1] <= b.east /\ b.south <= pt[2] /\ pt[2] <= b.north
\* The segment from a to b has a point in common with an edge of the rectangle
MeetsEdge(a, b, r) ==
    \E k \in 1..4 : SharePoint(a, b, RectEdges(r)[k][1], RectEdges(r)[k][2])
CrossesEdge(a, b, r) ==
    \E k \in 1..4 : ProperlyCross(a, b, RectEdges(r)[k][1], RectEdges(r)[k][2])
Segments(line) == {<<line[i], line[i + 1]>> : i \in 1..(Len(line) - 1)}
Vertices(line) == {line[i] : i \in 1..Len(line)}

\* C25: lineIntersectsRectangle is false when every vertex of the line is
\* outside the rectangle and no segment meets a rectangle edge, and true when
\* a vertex is in the rectangle (edges included) or a segment properly crosses
\* a rectangle edge.
C25_LineIntersectsRectangle ==
    (applied.fn = "lineIntersectsRectangle") =>
        LET line == applied.line
            r == applied.rect
        IN  /\ ((\A v \in Vertices(line) : ~InRect(v, r))
                    /\ (\A sg \in Segments(line) : ~MeetsEdge(sg[1], sg[2], r)))
                   => ~applied.result
            /\ (\E v \in Vertices(line) : InRect(v, r)) => applied.result
            /\ (\E sg \in Segments(line) : CrossesEdge(sg[1], sg[2], r)) => applied.result

\* A segment that passes through the rectangle with both ends outside it
C25_Witness ==
    /\ applied.fn = "lineIntersectsRectangle"
    /\ Len(applied.line) = 2
    /\ \A v \in Vertices(applied.line) : ~InRect(v, applied.rect)
    /\ CrossesEdge(applied.line[1], applied.line[2], applied.rect)
    /\ applied.result

\* ------------------------------------------------------------------------ C26
\* The edges of a closed ring
RingEdges(ring) == Segments(ring)
OnRing(pt, ring) == \E e \in RingEdges(ring) : OnSegment(e[1], e[2], pt)
\* The ray from pt straight up crosses the edge from a to b
UpRayCrosses(pt, a, b) ==
    /\ (a[1] > pt[1]) # (b[1] > pt[1])
    /\ IF b[1] > a[1] THEN Orient(a, b, pt) < 0 ELSE Orient(a, b, pt) > 0
\* pt is off the ring and an odd number of ring edges are above it
StrictlyInside(pt, ring) ==
    /\ ~OnRing(pt, ring)
    /\ Cardinality({i \in 1..(Len(ring) - 1) : UpRayCrosses(pt, ring[i], ring[i + 1])}) % 2 = 1
ContainsRect(ring, r) == \A k \in 1..4 : StrictlyInside(RectCorners(r)[k], ring)
IsClosedRing(ring) == Len(ring) >= 4 /\ ring[1] = ring[Len(ring)]

\* C26: for a closed ring, polygonIntersectsRectangle is true when the four
\* rectangle corners are strictly inside the ring, when a ring edge properly
\* crosses a rectangle edge and when a ring vertex is in the rectangle; it is
\* false when every ring vertex is outside the rectangle, no ring edge meets a
\* rectangle edge and the ring does not contain the rectangle.
C26_PolygonIntersectsRectangle ==
    (applied.fn = "polygonIntersectsRectangle" /\ IsClosedRing(applied.ring)) =>
        LET ring == applied.ring
            r == applied.rect
        IN  /\ ContainsRect(ring, r) => applied.result
            /\ (\E e \in RingEdges(ring) : CrossesEdge(e[1], e[2], r)) => applied.result
            /\ (\E v \in Vertices(ring) : InRect(v, r)) => applied.result
            /\ ((\A v \in Vertices(ring) : ~InRect(v, r))
                    /\ (\A e \in RingEdges(ring) : ~MeetsEdge(e[1], e[2], r))
                    /\ ~ContainsRect(ring, r))
                   => ~applied.result

\* The rectangle is inside the ring and no ring edge comes near it
C26_Witness ==
    /\ applied.fn = "polygonIntersectsRectangle"
    /\ IsClosedRing(applied.ring)
    /\ ContainsRect(applied.ring, applied.rect)
    /\ \A v \in Vertices(applied.ring) : ~InRect(v, applied.rect)
    /\ \A e \in RingEdges(applied.ring) : ~MeetsEdge(e[1], e[2], applied.rect)
    /\ applied.result

\* A ring of positive area away from the rectangle: the answer is false
C26_WitnessOutside ==
    /\ applied.fn = "polygonIntersectsRectangle"
    /\ IsClosedRing(applied.ring)
    /\ Orient(applied.ring[1], applied.ring[2], applied.ring[3]) # 0
    /\ \A v \in Vertices(applied.ring) : ~InRect(v, applied.rect)
    /\ \A e \in RingEdges(applied.ring) : ~MeetsEdge(e[1], e[2], applied.rect)
    /\ ~applied.result

\* ------------------------------------------------------------------------ C27
\* C27: lineIntersectsRectangle on a line of fewer than 2 points and
\* polygonIntersectsRectangle on a ring of fewer than 4 points are false,
\* wherever the points lie.
C27_MalformedIsFalse ==
    /\ (applied.fn = "lineIntersectsRectangle" /\ Len(applied.line) < 2) => ~applied.result
    /\ (applied.fn = "polygonIntersectsRectangle" /\ Len(applied.ring) < 4) => ~applied.result

\* ------------------------------------------------------------------------ C29
PointFeature(pt) == Feature(1, "Point", "array", pt)
OnBorder(pt, b) ==
    /\ InRect(pt, b)
    /\ pt[1] \in {b.west, b.east} \/ pt[2] \in {b.south, b.north}

\* C29: pointInRectangle is true exactly when west <= x <= east and
\* south <= y <= north, and both client-side filters keep a Point feature
\* exactly when pointInRectangle is true of its position.
C29_InclusiveEdges ==
    (applied.fn = "pointInRectangle") =>
        LET pt == applied.point
            b == applied.rect
        IN  /\ applied.result = (/\ b.west <= pt[1] /\ pt[1] <= b.east
                                 /\ b.south <= pt[2] /\ pt[2] <= b.north)
            /\ PrimaryKeeps(PointFeature(pt), b) = applied.result
            /\ FallbackKeeps(PointFeature(pt), b) = applied.result
            /\ FilterSeq(<<PointFeature(pt)>>, b, "primary")
                   = IF applied.result THEN <<PointFeature(pt)>> ELSE <<>>

\* A point on the west edge that is no corner, and it is in the rectangle
C29_Witness ==
    /\ applied.fn = "pointInRectangle"
    /\ applied.point[1] = applied.rect.west
    /\ applied.rect.south < applied.point[2] /\ applied.point[2] < applied.rect.north
    /\ OnBorder(applied.point, applied.rect)
    /\ applied.result
    /\ PrimaryKeeps(PointFeature(applied.point), applied.rect)

\* ------------------------------------------------------------------------ C30
\* No geometry, no coordinates, an unknown geometry type, or an empty
\* coordinate array
MalformedFeature(f) ==
    \/ f.gtype = "None"
    \/ f.ckind = "missing"
    \/ f.gtype \notin {"Point"} \cup LineTypes \cup PolygonTypes
    \/ f.ckind = "array" /\ f.coords = <<>>
KeptAlone(path, f, b) ==
    IF path = "primary" THEN PrimaryKeeps(f, b) ELSE FallbackKeeps(f, b)

\* C30: when the malformed features of a layer response are of those four
\* kinds, the client-side filter of either path drops them one by one: the
\* features it returns are the well-formed features of the response that the
\* filter keeps when it is given them alone.
C30_MalformedSkippedAlone ==
    (/\ applied.fn = "clientFilter"
     /\ \A i \in 1..Len(applied.payload) : applied.payload[i].ckind # "scalar") =>
        /\ ~applied.thrown
        /\ \A i \in 1..Len(applied.payload) :
              LET f == applied.payload[i]
              IN  (f \in SeqToSet(applied.result))
                      = (~MalformedFeature(f) /\ KeptAlone(applied.path, f, applied.rect))

\* ------------------------------------------------------------------------ C31
\* The place of a layer's pending attempt in the order native, fetch, fallback
AttemptRank(a) ==
    CASE a = "native" -> 1
      [] a = "fetch" -> 2
      [] a = "fallback" -> 3
      [] OTHER -> 0
Pending(a) == AttemptRank(a) > 0

C31_Step ==
    \A l \in QueryLayers :
        (attempt'[l] # attempt[l]) =>
            \* a query starts with the native attempt of its layers ...
            \/ qStatus # "running" /\ qStatus' = "running" /\ attempt'[l] \in {"native", "none"}
            \/ qStatus # "running" /\ qStatus' = "delivered" /\ attempt'[l] = "none"
            \* ... and while it runs an attempt is followed by the next one, after it
            \* has errored or come back empty, or by the layer's result
            \/ /\ qStatus = "running" /\ Pending(attempt[l])
               /\ \/ /\ attempt'[l] = "done"
                     /\ attempt[l] = "native" => results'[l] # <<>>
                  \/ /\ AttemptRank(attempt'[l]) = AttemptRank(attempt[l]) + 1
                     /\ results'[l] = <<>>

\* C31: within one layer the attempts of a query follow one another in the
\* order native, fetch, fallback, each started only by the step that ends the
\* one before it without features (the native query) or with a failure (the
\* fetch); a native answer with features ends the layer's attempts.
C31_AttemptsSequential == [][C31_Step]_vars

\* Two layers of one query are at different attempts at the same time
C31_Witness ==
    /\ qStatus = "running"
    /\ \E a, b \in QueryLayers : attempt[a] = "fallback" /\ attempt[b] = "native"

\* C32: a Draw-Select query in flight is never cancelled or discarded: when a
\* second query is issued before the first has settled and the first settles
\* after the second (and after every other query), the displayed feature set
\* is the result of the first, older query.
SettledLast(i) ==
    /\ overlap[i].settled > 0
    /\ \A k \in 1..Len(overlap) : overlap[k].settled <= overlap[i].settled
C32_LateOlderWins ==
    \A i, j \in 1..Len(overlap) :
        (i < j /\ overlap[j].settled > 0 /\ SettledLast(i)) =>
            /\ selectedFeatures = overlap[i].value
            /\ showFeaturePopup

C32_Witness ==
    /\ Len(overlap) = 2
    /\ overlap[2].settled = 1
    /\ overlap[1].settled = 2
    /\ overlap[1].bounds # overlap[2].bounds
    /\ overlap[1].value # overlap[2].value
    /\ overlap[2].value # <<>>
    /\ selectedFeatures = overlap[1].value

\* C33: the visitor counter counts each session once.  The first
\* handleVisitorCount() of a session increases the stored count by exactly 1
\* and returns the new count; every later call in the session returns the
\* stored count and leaves it alone; the handleVisitorCount() that follows a
\* resetCounter() returns 1.
HandleStep == visit'.op = "handleVisitorCount" /\ visit'.turn # visit.turn
C33_Step ==
    HandleStep =>
        /\ ~visit.counted =>
               /\ readCounter(counterStore', {}) = readCounter(counterStore, {}) + 1
               /\ visit'.returned = readCounter(counterStore', {})
        /\ visit.counted =>
               /\ counterStore' = counterStore
               /\ visit'.returned = readCounter(counterStore, {})
        /\ visit.op = "resetCounter" => visit'.returned = 1
C33_WorkingStorageStep == (~visit'.failed /\ ~visit.direct) => C33_Step
C33_WitnessReset ==
    /\ visit.op = "handleVisitorCount"
    /\ visit.returned = 1
    /\ counterStore = <<1>>
    /\ sessionStore = SessionId

\* C34: in both fetch-based paths the client-side filter keeps a LineString or
\* MultiLineString feature exactly when one of its lines satisfies
\* lineIntersectsRectangle, and a Polygon or MultiPolygon feature exactly when
\* one of its outer rings has a vertex in the box or satisfies
\* polygonIntersectsRectangle; on the same features and box the two paths keep
\* the same features.
IsKept(f, kept) == \E i \in 1..Len(kept) : kept[i] = f
LineShouldBeKept(f, b) ==
    \E k \in 1..Len(LinesOf(f)) : lineIntersectsRectangle(LinesOf(f)[k], b)
PolygonShouldBeKept(f, b) ==
    \E k \in 1..Len(PolygonsOf(f)) :
        /\ Len(PolygonsOf(f)[k]) > 0
        /\ \/ HasPointInBounds(PolygonsOf(f)[k][1], b)
           \/ polygonIntersectsRectangle(PolygonsOf(f)[k][1], b)
OtherPath(path) == IF path = "primary" THEN "fallback" ELSE "primary"
C34_FilterPathsAgree ==
    (applied.fn = "clientFilter" /\ ~applied.thrown) =>
        LET payload == applied.payload
            b == applied.rect
            other == ClientFilter(OtherPath(applied.path), payload, b)
        IN  /\ \A i \in 1..Len(payload) :
                   LET f == payload[i]
                   IN  /\ (f.gtype \in LineTypes /\ f.ckind = "array") =>
                              (IsKept(f, applied.result) <=> LineShouldBeKept(f, b))
                       /\ (f.gtype \in PolygonTypes /\ f.ckind = "array") =>
                              (IsKept(f, applied.result) <=> PolygonShouldBeKept(f, b))
            /\ ~other.thrown => other.result = applied.result

\* C35: the fetch strategy of a layer query is selected from the map's zoom at
\* query time: below 8 the unfiltered broad fetch with a cap of 1000, at 8 or 9
\* the spatial query over the box expanded by the low-zoom margin, at 10 or
\* above the tightly expanded spatial query.
C35_StrategyFollowsZoom ==
    (fetchPlan.fn = "fetchQuery") =>
        LET z == fetchPlan.mapZoom
            plan == fetchPlan.plan
        IN  /\ z < 8 => plan.kind = "broad" /\ plan.cap = BroadCap
            /\ z \in {8, 9} => plan.kind = "spatial" /\ plan.expansion = LowZoomExpansion
            /\ z >= 10 => plan.kind = "spatial" /\ plan.expansion = NormalExpansion

\* C36: after every zoom change each active layer's where clause matches its
\* zoom threshold: '1=1' when the zoom is at or above the threshold (bridges 8,
\* conduits 9, roads 7, boundaries 6, lighting 10), '1=0' when it is below.
ClaimedThreshold(l) ==
    CASE l = "bridges" -> 8 [] l = "conduits" -> 9 [] l = "roads" -> 7
      [] l = "boundaries" -> 6 [] l = "lighting" -> 10
C36_WhereFollowsZoom ==
    \A l \in LayerNames :
        IsOn(layerStates, l) =>
            layerWhere[l] = (IF zoom >= ClaimedThreshold(l) THEN "1=1" ELSE "1=0")

\* C37: the layers queried on pointer-up are the layers active at that moment:
\* a layer toggled on or off after the draw tool was armed and before the drag
\* ends is, or is not, among the layers the resulting query covers.
C37_Step ==
    (drawVars' # drawVars /\ queryCalls' # <<>>) =>
        VisibleLayers(queryCalls'[1].layerStates) = VisibleLayers(layerStates)
C37_QueriesActiveLayers == [][C37_Step]_vars

\* C39: lineSegmentsIntersect does not depend on the order of its arguments:
\* swapping the two endpoints of either segment, or the two segments, never
\* changes the result, also when an endpoint of one segment lies on the other.
C39_OrderIndependent ==
    (applied.fn = "lineSegmentsIntersect") =>
        LET p1 == applied.p1  p2 == applied.p2  p3 == applied.p3  p4 == applied.p4
        IN  /\ lineSegmentsIntersect(p2, p1, p3, p4) = applied.result
            /\ lineSegmentsIntersect(p1, p2, p4, p3) = applied.result
            /\ lineSegmentsIntersect(p3, p4, p1, p2) = applied.result

=============================================================================
